---- MODULE Spec2Model ----
(***************************************************************************)
(* Model of the rtl-haos normalization and discovery-publishing engine:    *)
(* HomeNodeMQTT.send_sensor / _publish_discovery (mqtt_handler.py) and     *)
(* DataProcessor.dispatch_reading / start_throttle_loop                    *)
(* (data_processor.py).                                                    *)
(*                                                                         *)
(* Values are typed as Python types them: an int, a float (kept in         *)
(* hundredths, the precision round(x, 2) leaves), a str or None.  Topics   *)
(* and unique ids are the strings the code builds.                         *)
(***************************************************************************)
EXTENDS Integers, Sequences, FiniteSets, TLC

VARIABLES
    now,                 \* time.time(), in whole seconds
    config,              \* the config module's settings read by the code
    field_meta_table,    \* which FIELD_META table get_field_meta consults
    discovery_published, \* self.discovery_published
    last_sent_values,    \* self.last_sent_values : unique_id -> value
    tracked_devices,     \* self.tracked_devices
    migration_cleared,   \* self.migration_cleared
    battery_state,       \* self._battery_state : clean_id -> record
    commodity_by_device, \* self._commodity_by_device : clean_id -> commodity
    device_model_by_id,  \* self._device_model_by_id : clean_id -> model
    utility_last_raw,    \* self._utility_last_raw, in dict insertion order
    discovery_sig,       \* self._discovery_sig : unique_id -> signature
    buffer,              \* DataProcessor.buffer, devices in insertion order
    last_flush,          \* time the throttle loop last woke up
    broker,              \* retained messages held by the broker : topic -> message
    pubs,                \* messages handed to client.publish by the last step
    calls,               \* one record per send_sensor call of the last step
    hist,                \* per device: history of battery_ok readings (observer)
    plan,                \* readings a scripted run still has to send, and all of them
    nuke_counter,        \* self.nuke_counter
    nuke_last_press,     \* self.nuke_last_press
    is_nuking,           \* self.is_nuking
    nuke_subscribed,     \* the client is subscribed to homeassistant/+/+/config
    nuke_timers,         \* due times of the pending threading.Timer(5.0, _stop_nuke_scan)
    current_batch,       \* the flush thread's current_batch between swap and reduce
    arrived,             \* the reading handed to dispatch_reading by the last step (observer)
    accepted,            \* per (device, field): the values buffered so far (observer)
    reduced,             \* per (device, field): the values reduced so far (observer)
    failed,              \* messages whose client.publish failed in the last step
    raised,              \* the last step ended with an exception of client.publish
    flusher_alive,       \* the thread of start_throttle_loop is still running
    threads,             \* per producer thread: where it is in send_sensor
    presses,             \* times of the presses of the nuke button (observer)
    capture_fp,          \* self._capture_fp is not None
    capture_active_until,\* self._capture_active_until
    capture_path,        \* self._capture_path: the second the file is named after
    capture_last_error,  \* self._capture_last_error
    capture_file,        \* the lines written to the capture file, with their times
    capture_timers,      \* due times of the pending Timer(seconds + 1, stop_capture)
    detected_devices,    \* main(): the list discover_rtl_devices() returned
    serial_to_index,     \* main(): serial_to_index, built from detected_devices
    radios,              \* main(): the radios an rtl_loop thread was started for
    details_cache,       \* self._details_cache : clean_id -> entry
    stop_pc              \* where main() is: "running", inside stop(), or "exited"

vars == <<now, config, field_meta_table, discovery_published, last_sent_values,
          tracked_devices, migration_cleared, battery_state, commodity_by_device,
          device_model_by_id, utility_last_raw, discovery_sig, buffer, last_flush,
          broker, pubs, calls, hist, plan, nuke_counter, nuke_last_press, is_nuking,
          nuke_subscribed, nuke_timers, current_batch, arrived, accepted, reduced,
          failed, raised, flusher_alive, threads, presses, capture_fp,
          capture_active_until, capture_path, capture_last_error, capture_file,
          capture_timers, detected_devices, serial_to_index, radios, details_cache,
          stop_pc>>

\* the variables of the nuke logic, and the observers of the readings
nuke_vars == <<nuke_counter, nuke_last_press, is_nuking, nuke_subscribed, nuke_timers>>
observers == <<arrived, accepted, reduced>>
\* the variables of the capture and of the startup, and those that the steps
\* of the publisher and of the buffer leave alone
capture_vars == <<capture_fp, capture_active_until, capture_path, capture_last_error,
                  capture_file, capture_timers>>
startup_vars == <<detected_devices, serial_to_index, radios>>
details_vars == <<details_cache>>
shutdown_vars == <<stop_pc>>
side_vars == <<threads, presses, capture_vars, startup_vars, details_vars, shutdown_vars>>

----------------------------------------------------------------------------
(* Bounds of the model *)

MaxTime == 4
MaxBuf == 2

----------------------------------------------------------------------------
(* Python values *)

NoneV == [t |-> "none", n |-> 0, s |-> ""]
IntV(k) == [t |-> "int", n |-> k, s |-> ""]
\* a float with at most two decimals, h = 100 * value
FloatV(h) == [t |-> "float", n |-> h, s |-> ""]
StrV(x) == [t |-> "str", n |-> 0, s |-> x]

IsNum(v) == v.t \in {"int", "float"}
\* the number, in hundredths
Hundredths(v) == IF v.t = "int" THEN 100 * v.n ELSE v.n

\* Python's == on these values: numbers compare by value across int and float
PyEq(a, b) ==
    IF IsNum(a) /\ IsNum(b) THEN Hundredths(a) = Hundredths(b)
    ELSE a = b

\* str(value): the payload text client.publish is given
PyStr(v) ==
    CASE v.t = "int" -> ToString(v.n)
      [] v.t = "float" ->
            LET whole == v.n \div 100
                frac == v.n % 100
            IN ToString(whole) \o "." \o
               (IF frac % 10 = 0 THEN ToString(frac \div 10)
                ELSE IF frac < 10 THEN "0" \o ToString(frac)
                ELSE ToString(frac))
      [] v.t = "str" -> v.s
      [] OTHER -> "None"

\* str.strip().lower() on the texts the model feeds in
StripLower(x) ==
    CASE x = "Gas" -> "gas"
      [] x = " Electric " -> "electric"
      [] x = "Water" -> "water"
      [] x = "OK" -> "ok"
      [] OTHER -> x

\* the integers whose decimal text the model feeds in
MaxCode == 14
IntTexts == -1..(MaxCode + 2)

\* int(str) on the texts the model feeds in: <<parsed, number>>
ParseIntText(x) ==
    IF \E k \in IntTexts : ToString(k) = x
    THEN <<TRUE, CHOOSE k \in IntTexts : ToString(k) = x>>
    ELSE <<FALSE, 0>>

\* int(float), which truncates towards zero; h = 100 * value
IntOfFloat(h) == IF h >= 0 THEN h \div 100 ELSE -((-h) \div 100)

Last(seq) == seq[Len(seq)]

\* dict.get / dict[k] = v on functions with a growing domain
Get(m, k, dflt) == IF k \in DOMAIN m THEN m[k] ELSE dflt
Put(m, k, v) == [x \in (DOMAIN m) \cup {k} |-> IF x = k THEN v ELSE m[x]]
EmptyMap == [x \in {} |-> NoneV]

----------------------------------------------------------------------------
(* Settings of the config module that the model keeps fixed *)

ID_SUFFIX == "_T"
BRIDGE_NAME == "Bridge"
RTL_EXPIRE_AFTER == 60
BATTERY_EXPIRE_FLOOR == 86400
MAIN_SENSORS == {"temperature"}

NoTime == -1
NoText == "None"

----------------------------------------------------------------------------
(* utils.clean_mac: re.sub(r'[^A-Za-z0-9]', '', str(mac)).lower() or "unknown". *)
(* A raw id is the sequence of its characters.                               *)

IsAlnum(c) == c \in {"d", "D", "e", "E", "1", "2"}
LowerChar(c) == CASE c = "D" -> "d" [] c = "E" -> "e" [] OTHER -> c

RECURSIVE CleanedText(_)
CleanedText(chars) ==
    IF chars = <<>> THEN ""
    ELSE (IF IsAlnum(Head(chars)) THEN LowerChar(Head(chars)) ELSE "")
         \o CleanedText(Tail(chars))

clean_mac(mac) ==
    LET cleaned == CleanedText(mac)
    IN IF cleaned = "" THEN "unknown" ELSE cleaned

----------------------------------------------------------------------------
(* Commodity inference *)

ERT_TYPE_COMMODITY ==
    [electric |-> {4, 5, 7, 8}, gas |-> {0, 1, 2, 9, 12}, water |-> {3, 11, 13}]

\* the dict is scanned in its order electric, gas, water; the sets are disjoint
CommodityOfCode(t) ==
    IF t \in ERT_TYPE_COMMODITY.electric THEN "electric"
    ELSE IF t \in ERT_TYPE_COMMODITY.gas THEN "gas"
    ELSE IF t \in ERT_TYPE_COMMODITY.water THEN "water"
    ELSE NoText

\* int(value) raises for None and for text that is no integer literal
infer_commodity_from_ert_type(value) ==
    CASE value.t = "int" -> CommodityOfCode(value.n)
      [] value.t = "float" -> CommodityOfCode(IntOfFloat(value.n))
      [] value.t = "str" ->
            LET p == ParseIntText(StripLower(value.s))
            IN IF p[1] THEN CommodityOfCode(p[2]) ELSE NoText
      [] OTHER -> NoText

CommodityOfText(v) ==
    IF v \in {"electric", "electricity", "energy", "power"} THEN "electric"
    ELSE IF v \in {"gas", "natural gas"} THEN "gas"
    ELSE IF v \in {"water"} THEN "water"
    ELSE NoText

infer_commodity_from_meter_type(value) ==
    IF value.t # "str" THEN NoText ELSE CommodityOfText(StripLower(value.s))

infer_commodity_from_type_field(value) ==
    IF IsNum(value)
    THEN infer_commodity_from_ert_type(
             IF value.t = "int" THEN value ELSE IntV(IntOfFloat(value.n)))
    ELSE IF value.t # "str" THEN NoText
    ELSE CommodityOfText(StripLower(value.s))

\* _parse_boolish: "T", "F", or "N" for None
ParseBoolishBroken(value) ==
    CASE value.t = "none" -> "N"
      [] IsNum(value) -> IF Hundredths(value) # 0 THEN "T" ELSE "F"
      [] OTHER -> IF StripLower(value.s) \in {"1", "true", "on", "yes", "ok", "good"}
                  THEN "T" ELSE "F"

parse_boolish(value) ==
    CASE value.t = "none" -> "N"
      [] IsNum(value) -> IF Hundredths(value) # 0 THEN "T" ELSE "F"
      [] value.t = "str" ->
            LET v == StripLower(value.s)
            IN IF v \in {"1", "true", "on", "yes", "ok", "good"} THEN "T"
               ELSE IF v \in {"0", "false", "off", "no", "low", "bad"} THEN "F"
               ELSE "N"
      [] OTHER -> "N"

----------------------------------------------------------------------------
(* field_meta.get_field_meta: metadata <<unit, device_class, icon, name>> of *)
(* a field, or NoMeta.  The consumption totals carry the unit ft3 by         *)
(* default; whether the table also classes them as a commodity total is what *)
(* field_meta_table ranges over.                                             *)

NoMeta == <<>>
UtilityFields == {"Consumption", "consumption", "consumption_data", "meter_reading"}

get_field_meta(field, device_model) ==
    CASE field \in {"Consumption", "consumption", "consumption_data"} ->
            IF field_meta_table = "classed"
            THEN <<"ft3", "gas", "mdi:fire", "Gas Usage">>
            ELSE <<"ft3", "none", "mdi:counter", "Consumption">>
      [] field = "meter_reading" ->
            IF field_meta_table = "classed"
            THEN <<"ft3", "water", "mdi:water-pump", "Water Reading">>
            ELSE <<"ft3", "none", "mdi:counter", "Meter Reading">>
      [] field = "temperature" -> <<"C", "temperature", "mdi:thermometer", "Temperature">>
      [] field = "battery_ok" -> <<NoText, "battery", "mdi:battery", "Battery">>
      [] OTHER -> NoMeta

\* sensor_name.replace("_", " ").title() on the field names of the model
TitleOf(sensor_name) ==
    CASE sensor_name = "MeterType" -> "Metertype"
      [] sensor_name = "ert_type" -> "Ert Type"
      [] sensor_name = "type" -> "Type"
      [] sensor_name = "battery_ok" -> "Battery Ok"
      [] sensor_name = "meter_reading" -> "Meter Reading"
      [] sensor_name = "temperature" -> "Temperature"
      [] OTHER -> sensor_name

\* str.lower().startswith(...) on the device models of the model
LowerModel(m) ==
    CASE m = "ERT-SCM" -> "ert-scm"
      [] m = "SCMplus" -> "scmplus"
      [] m = "Neptune-R900" -> "neptune-r900"
      [] OTHER -> m
IsErtOrScmplus(lower_model) == lower_model \in {"ert-scm", "scmplus"}
IsNeptuneR900(lower_model) == lower_model = "neptune-r900"

GasUnitIsCcf == config.gas_unit \in {"ccf", "centum_cubic_feet"}

\* HomeNodeMQTT._utility_meta_override
utility_meta_override(commodity_map, model_map, clean_id, field) ==
    LET commodity == Get(commodity_map, clean_id, NoText)
    IN CASE commodity = NoText -> NoMeta
         [] commodity = "electric" -> <<"kWh", "energy", "mdi:flash", "Energy Reading">>
         [] commodity = "gas" ->
               IF GasUnitIsCcf THEN <<"CCF", "gas", "mdi:fire", "Gas Usage">>
               ELSE <<"ft3", "gas", "mdi:fire", "Gas Usage">>
         [] commodity = "water" ->
               IF field = "meter_reading"
                  /\ IsNeptuneR900(LowerModel(Get(model_map, clean_id, "")))
               THEN <<"gal", "water", "mdi:water-pump", "Water Usage">>
               ELSE <<"ft3", "water", "mdi:water-pump", "Water Reading">>
         [] OTHER -> NoMeta

\* float(value): <<ok, hundredths>>
ToFloat(value) ==
    CASE IsNum(value) -> <<TRUE, Hundredths(value)>>
      [] value.t = "str" ->
            LET p == ParseIntText(StripLower(value.s))
            IN IF p[1] THEN <<TRUE, 100 * p[2]>> ELSE <<FALSE, 0>>
      [] OTHER -> <<FALSE, 0>>

\* round(v * 0.01, 2) of a number given in hundredths, again in hundredths
\* (round half to even on the exact decimal)
ScaleHundredth(h) ==
    LET q == h \div 100
        r == h % 100
    IN IF r > 50 \/ (r = 50 /\ q % 2 = 1) THEN q + 1 ELSE q

\* a variant that scales every total, whatever the commodity
UtilityNormalizeAlwaysScales(commodity_map, model_map, clean_id, field, value, device_model) ==
    IF field \in UtilityFields /\ ToFloat(value)[1]
    THEN FloatV(ScaleHundredth(ToFloat(value)[2])) ELSE value

\* HomeNodeMQTT._utility_normalize_value
utility_normalize_value(commodity_map, model_map, clean_id, field, value, device_model) ==
    LET commodity == Get(commodity_map, clean_id, NoText)
        f == ToFloat(value)
        model == LowerModel(IF device_model # "" THEN device_model
                            ELSE Get(model_map, clean_id, ""))
    IN IF commodity = NoText THEN value
       ELSE IF field \notin UtilityFields THEN value
       ELSE IF ~f[1] THEN value
       ELSE IF commodity = "electric"
            THEN (IF IsErtOrScmplus(model) THEN FloatV(ScaleHundredth(f[2]))
                  ELSE FloatV(f[2]))
       ELSE IF commodity = "gas"
            THEN (IF GasUnitIsCcf THEN FloatV(ScaleHundredth(f[2])) ELSE FloatV(f[2]))
       ELSE FloatV(f[2])

----------------------------------------------------------------------------
(* Messages and the broker *)

NoCfg == [absent |-> TRUE]

\* client.publish(topic, payload, retain=True)
ConfigMsg(topic, payload) == [topic |-> topic, kind |-> "config", text |-> "json", cfg |-> payload]
TextMsg(topic, text) == [topic |-> topic, kind |-> "state", text |-> text, cfg |-> NoCfg]

\* a retained message replaces the topic's retained message; an empty retained
\* payload removes it
Retain(b, msg) ==
    IF msg.kind # "config" /\ msg.text = ""
    THEN [t \in (DOMAIN b) \ {msg.topic} |-> b[t]]
    ELSE Put(b, msg.topic, msg)

\* the handler's state, threaded through the calls of one step
Handler ==
    [discovery_published |-> discovery_published,
     last_sent_values |-> last_sent_values,
     tracked_devices |-> tracked_devices,
     migration_cleared |-> migration_cleared,
     battery_state |-> battery_state,
     commodity_by_device |-> commodity_by_device,
     device_model_by_id |-> device_model_by_id,
     utility_last_raw |-> utility_last_raw,
     discovery_sig |-> discovery_sig,
     broker |-> broker,
     pubs |-> <<>>,
     calls |-> <<>>,
     faults |-> <<>>,
     failed |-> <<>>,
     raised |-> FALSE]

\* what client.publish does with a message: "ok" hands it to the broker,
\* "error" returns an error code and drops it (the client is not connected),
\* "raise" raises.  H.faults lists the outcomes of the publishes to come, and
\* every publish after them succeeds.
PublishOutcomes == {"ok", "error", "raise"}
OutcomeOf(H) == IF H.faults = <<>> THEN "ok" ELSE Head(H.faults)
FaultsAfter(H) == IF H.faults = <<>> THEN <<>> ELSE Tail(H.faults)

\* the handler before a step whose publishes meet the outcomes of faults
HandlerWithFaults(faults) == [Handler EXCEPT !.faults = faults]

Publish(H, msg) ==
    IF OutcomeOf(H) = "ok"
    THEN [H EXCEPT !.pubs = Append(@, msg), !.broker = Retain(@, msg),
                   !.faults = FaultsAfter(H)]
    ELSE [H EXCEPT !.failed = Append(@, msg), !.raised = OutcomeOf(H) = "raise",
                   !.faults = FaultsAfter(H)]

\* f"{unique_id_base}_{field}" and f"{unique_id}{config.ID_SUFFIX}"
UniqueId(clean_id, field) == clean_id \o "_" \o field
UniqueIdV2(clean_id, field) == UniqueId(clean_id, field) \o ID_SUFFIX
StateTopic(clean_id, field) == "home/rtl_devices/" \o clean_id \o "/" \o field
ConfigTopic(domain, unique_id_v2) == "homeassistant/" \o domain \o "/" \o unique_id_v2 \o "/config"

IsRadioStatus(sensor_name) == sensor_name \in {"radio_status", "radio_status_0"}
HasVersion(sensor_name) == sensor_name \in {"version", "sw_version"}

MaxOf(a, b) == IF a >= b THEN a ELSE b

----------------------------------------------------------------------------
(* HomeNodeMQTT._publish_discovery.  clean_id is unique_id.split('_')[0]:   *)
(* clean_mac leaves no "_" in it.                                           *)

\* the metadata tuple <<unit, device_class, icon, name>> of the entity
MetaFor(sensor_name, device_model, meta_override) ==
    IF IsRadioStatus(sensor_name)
    THEN <<NoText, "none", "mdi:radio-tower", "Radio Status">>
    ELSE IF meta_override # NoMeta THEN meta_override
    ELSE IF get_field_meta(sensor_name, device_model) # NoMeta
    THEN get_field_meta(sensor_name, device_model)
    ELSE <<NoText, "none", "mdi:eye", TitleOf(sensor_name)>>

\* the discovery payload built around the metadata tuple
PayloadWithMeta(meta, sensor_name, state_topic, clean_id, device_name, device_model, friendly_name_override, domain, extra_payload) ==
    LET unit == meta[1]
        device_class == meta[2]
        icon == meta[3]
        default_fname == meta[4]
    IN [name |-> IF friendly_name_override # NoText THEN friendly_name_override
                 ELSE default_fname,
        state_topic |-> state_topic,
        unique_id |-> UniqueIdV2(clean_id, sensor_name),
        device |-> [identifiers |-> "rtl433_" \o device_model \o "_" \o clean_id,
                    manufacturer |-> "rtl-haos",
                    model |-> device_model,
                    name |-> device_name,
                    via_device |-> device_model # BRIDGE_NAME],
        icon |-> icon,
        device_class |-> IF device_class # "none" THEN device_class ELSE NoText,
        entity_category |->
            IF sensor_name \in MAIN_SENSORS \/ IsRadioStatus(sensor_name)
               \/ device_class \in {"gas", "energy", "water"}
            THEN NoText ELSE "diagnostic",
        unit_of_measurement |-> IF domain = "sensor" /\ unit \notin {NoText, ""}
                                THEN unit ELSE NoText,
        state_class |->
            IF domain # "sensor" THEN NoText
            ELSE IF device_class \in {"wind_direction"} THEN "measurement_angle"
            ELSE IF device_class \in {"temperature", "humidity", "pressure", "illuminance",
                                      "voltage", "wind_speed", "moisture"}
                 THEN "measurement"
            ELSE IF device_class \in {"gas", "energy", "water", "monetary", "precipitation"}
                 THEN "total_increasing"
            ELSE NoText,
        payload_on |-> IF extra_payload THEN "ON" ELSE NoText,
        payload_off |-> IF extra_payload THEN "OFF" ELSE NoText,
        expire_after |->
            IF HasVersion(sensor_name) \/ IsRadioStatus(sensor_name) THEN NoTime
            ELSE IF sensor_name = "battery_ok"
                 THEN MaxOf(RTL_EXPIRE_AFTER, BATTERY_EXPIRE_FLOOR)
            ELSE RTL_EXPIRE_AFTER]

DiscoveryPayload(sensor_name, state_topic, clean_id, device_name, device_model, friendly_name_override, domain, extra_payload, meta_override) ==
    PayloadWithMeta(MetaFor(sensor_name, device_model, meta_override), sensor_name,
                    state_topic, clean_id, device_name, device_model,
                    friendly_name_override, domain, extra_payload)

\* the signature tuple of a payload
SignatureOf(domain, payload) ==
    <<domain, payload.device_class, payload.unit_of_measurement, payload.icon,
      payload.name, payload.entity_category, payload.state_class>>

NoSig == <<>>

\* the statements after client.publish(config_topic, ...) in
\* _publish_discovery, which run unless the publish raised
StoreDiscovery(P, unique_id, sig) ==
    IF P.raised THEN P
    ELSE [P EXCEPT !.discovery_published = @ \cup {unique_id},
                   !.discovery_sig = Put(@, unique_id, sig)]

\* a variant that publishes once per unique id and never again
PublishDiscoveryOnce(H, sensor_name, state_topic, clean_id, device_name, device_model, friendly_name_override, domain, extra_payload, meta_override) ==
    LET unique_id == UniqueIdV2(clean_id, sensor_name)
        payload == DiscoveryPayload(sensor_name, state_topic, clean_id, device_name,
                       device_model, friendly_name_override, domain, extra_payload,
                       meta_override)
        sig == SignatureOf(domain, payload)
    IN IF unique_id \in DOMAIN H.discovery_sig
       THEN [H |-> H, published |-> FALSE, sig |-> sig]
       ELSE [H |-> StoreDiscovery(
                       Publish(H, ConfigMsg(ConfigTopic(domain, unique_id), payload)),
                       unique_id, sig),
             published |-> TRUE, sig |-> sig]

\* the compare-and-publish at the end of _publish_discovery
PublishIfChanged(H, unique_id, domain, payload) ==
    LET sig == SignatureOf(domain, payload)
    IN IF Get(H.discovery_sig, unique_id, NoSig) = sig
       THEN [H |-> [H EXCEPT !.discovery_published = @ \cup {unique_id}],
             published |-> FALSE, sig |-> sig]
       ELSE [H |-> StoreDiscovery(
                       Publish(H, ConfigMsg(ConfigTopic(domain, unique_id), payload)),
                       unique_id, sig),
             published |-> TRUE, sig |-> sig]

publish_discovery(H, sensor_name, state_topic, clean_id, device_name, device_model, friendly_name_override, domain, extra_payload, meta_override) ==
    PublishIfChanged(H, UniqueIdV2(clean_id, sensor_name), domain,
                     DiscoveryPayload(sensor_name, state_topic, clean_id, device_name,
                                      device_model, friendly_name_override, domain,
                                      extra_payload, meta_override))

----------------------------------------------------------------------------
(* The battery latch of send_sensor (field == "battery_ok") *)

NewBatteryState ==
    [latched_low |-> FALSE, last_low |-> NoTime, ok_candidate_since |-> NoTime,
     ok_since |-> NoTime]

\* int(getattr(config, "BATTERY_OK_CLEAR_AFTER", 0) or 0)
ClearAfter == config.BATTERY_OK_CLEAR_AFTER

\* a variant that restarts the candidate timer on every ok reading
BatteryLatchRestarting(st, ok, t) ==
    IF ~ok
    THEN [st |-> [latched_low |-> TRUE, last_low |-> t, ok_candidate_since |-> NoTime,
                  ok_since |-> NoTime],
          low |-> TRUE]
    ELSE IF st.latched_low
    THEN IF ClearAfter <= 0
         THEN [st |-> [st EXCEPT !.latched_low = FALSE, !.ok_candidate_since = NoTime,
                                 !.ok_since = t],
               low |-> FALSE]
         ELSE [st |-> [st EXCEPT !.ok_candidate_since = t], low |-> TRUE]
    ELSE [st |-> [st EXCEPT !.ok_since = IF @ = NoTime THEN t ELSE @], low |-> FALSE]

\* a variant whose not-ok branch keeps a pending candidate
BatteryLatchKeepsCandidate(st, ok, t) ==
    LET cand == IF st.ok_candidate_since = NoTime THEN t ELSE st.ok_candidate_since
    IN IF ~ok
       THEN [st |-> [st EXCEPT !.latched_low = TRUE, !.last_low = t, !.ok_since = NoTime],
             low |-> TRUE]
       ELSE IF st.latched_low
       THEN IF ClearAfter <= 0 \/ (t - cand) >= ClearAfter
            THEN [st |-> [st EXCEPT !.latched_low = FALSE, !.ok_candidate_since = NoTime,
                                    !.ok_since = t],
                  low |-> FALSE]
            ELSE [st |-> [st EXCEPT !.ok_candidate_since = cand], low |-> TRUE]
       ELSE [st |-> [st EXCEPT !.ok_since = IF @ = NoTime THEN t ELSE @], low |-> FALSE]

\* a variant that counts the clear delay from the last low reading
BatteryLatchFromLastLow(st, ok, t) ==
    LET cand == IF st.ok_candidate_since = NoTime THEN t ELSE st.ok_candidate_since
    IN IF ~ok
       THEN [st |-> [latched_low |-> TRUE, last_low |-> t, ok_candidate_since |-> NoTime,
                     ok_since |-> NoTime],
             low |-> TRUE]
       ELSE IF st.latched_low
       THEN IF ClearAfter <= 0 \/ (t - st.last_low) >= ClearAfter
            THEN [st |-> [st EXCEPT !.latched_low = FALSE, !.ok_candidate_since = NoTime,
                                    !.ok_since = t],
                  low |-> FALSE]
            ELSE [st |-> [st EXCEPT !.ok_candidate_since = cand], low |-> TRUE]
       ELSE [st |-> [st EXCEPT !.ok_since = IF @ = NoTime THEN t ELSE @], low |-> FALSE]

\* the latch update for a parsed reading at time t: the new state and "low"
BatteryLatch(st, ok, t) ==
    LET cand == IF st.ok_candidate_since = NoTime THEN t ELSE st.ok_candidate_since
    IN IF ~ok
       THEN [st |-> [latched_low |-> TRUE, last_low |-> t, ok_candidate_since |-> NoTime,
                     ok_since |-> NoTime],
             low |-> TRUE]
       ELSE IF st.latched_low
       THEN IF ClearAfter <= 0 \/ (t - cand) >= ClearAfter
            THEN [st |-> [st EXCEPT !.latched_low = FALSE, !.ok_candidate_since = NoTime,
                                    !.ok_since = t],
                  low |-> FALSE]
            ELSE [st |-> [st EXCEPT !.ok_candidate_since = cand], low |-> TRUE]
       ELSE [st |-> [st EXCEPT !.ok_since = IF @ = NoTime THEN t ELSE @], low |-> FALSE]

----------------------------------------------------------------------------
(* HomeNodeMQTT.send_sensor and _refresh_utility_entities_for_device *)

HintFieldsErt == {"ert_type", "ertType", "ERTType"}
HintFieldsMeter == {"MeterType", "meter_type", "metertype"}
HintFieldsType == {"type", "Type"}

\* the commodity a reading announces, or NoText
CommodityUpdate(field, value) ==
    LET from_ert == IF field \in HintFieldsErt
                    THEN infer_commodity_from_ert_type(value) ELSE NoText
        from_meter == IF from_ert = NoText /\ field \in HintFieldsMeter
                      THEN infer_commodity_from_meter_type(value) ELSE from_ert
    IN IF from_meter = NoText /\ field \in HintFieldsType
       THEN infer_commodity_from_type_field(value) ELSE from_meter

\* self._utility_last_raw[(clean_id, field)] = value, keeping dict order
PutRaw(raw, clean_id, field, value) ==
    IF \E i \in 1..Len(raw) : raw[i].cid = clean_id /\ raw[i].field = field
    THEN [i \in 1..Len(raw) |->
            IF raw[i].cid = clean_id /\ raw[i].field = field
            THEN [raw[i] EXCEPT !.value = value] ELSE raw[i]]
    ELSE Append(raw, [cid |-> clean_id, field |-> field, value |-> value])

\* what one send_sensor call did, for the properties below
CallRecord(clean_id, field, value, is_rtl, nested, rejected, prev_sig, sig, prev_value, out_value, meta_override, msgs) ==
    [clean_id |-> clean_id, field |-> field, value |-> value, is_rtl |-> is_rtl,
     nested |-> nested, rejected |-> rejected, prev_sig |-> prev_sig, sig |-> sig,
     prev_value |-> prev_value, out_value |-> out_value,
     meta_override |-> meta_override, msgs |-> msgs, at |-> now]

\* a variant that forgets that discovery was just republished
ShouldPublishStateIgnoringDiscovery(prev_value, out_value, discovery_published_now, is_rtl) ==
    ~PyEq(prev_value, out_value) \/ is_rtl

\* a variant that publishes the state on every call
ShouldPublishStateAlways(prev_value, out_value, discovery_published_now, is_rtl) ==
    TRUE

\* value_changed or is_rtl, with value_changed =
\* (last_sent_values.get(unique_id_v2) != out_value) or bool(discovery_published_now)
ShouldPublishState(prev_value, out_value, discovery_published_now, is_rtl) ==
    LET value_changed == ~PyEq(prev_value, out_value) \/ discovery_published_now
    IN value_changed \/ is_rtl

RECURSIVE send_sensor(_, _, _, _, _, _, _, _, _)
RECURSIVE RefreshItems(_, _, _, _, _)

\* the loop of _refresh_utility_entities_for_device over list(items())
RefreshItems(H, items, clean_id, device_name, device_model) ==
    IF items = <<>> \/ H.raised THEN H
    ELSE LET it == Head(items)
             H1 == IF it.cid # clean_id THEN H
                   ELSE send_sensor(H, clean_id, it.field, it.value, device_name,
                                    device_model, FALSE, NoText, TRUE)
         IN RefreshItems(H1, Tail(items), clean_id, device_name, device_model)

\* a variant of the refresh that re-evaluates nothing
RefreshNothing(H, clean_id, device_name, device_model) == H

refresh_utility_entities_for_device(H, clean_id, device_name, device_model) ==
    RefreshItems(H, H.utility_last_raw, clean_id, device_name, device_model)

\* a variant that caches the normalized value of a utility reading
RecordReadingCachesNormalized(H, clean_id, field, value, device_name, device_model) ==
    [H EXCEPT !.tracked_devices = @ \cup {device_name},
              !.device_model_by_id = Put(@, clean_id, device_model),
              !.utility_last_raw =
                  IF field \in UtilityFields
                  THEN PutRaw(@, clean_id, field,
                              utility_normalize_value(H.commodity_by_device,
                                  H.device_model_by_id, clean_id, field, value,
                                  device_model))
                  ELSE @]

\* tracked_devices.add, the model of the device, the raw utility cache
RecordReading(H, clean_id, field, value, device_name, device_model) ==
    [H EXCEPT !.tracked_devices = @ \cup {device_name},
              !.device_model_by_id = Put(@, clean_id, device_model),
              !.utility_last_raw =
                  IF field \in UtilityFields
                  THEN PutRaw(@, clean_id, field, value) ELSE @]

\* a variant that stores whatever the hint says, recognised or not
LearnCommodityUnguarded(H, clean_id, field, value, device_name, device_model) ==
    IF field \in HintFieldsErt \cup HintFieldsMeter \cup HintFieldsType
    THEN refresh_utility_entities_for_device(
             [H EXCEPT !.commodity_by_device =
                           Put(@, clean_id, CommodityUpdate(field, value))],
             clean_id, device_name, device_model)
    ELSE H

\* the commodity hint: store a changed commodity and refresh the cached
\* utility readings of the device
LearnCommodity(H, clean_id, field, value, device_name, device_model) ==
    LET commodity_update == CommodityUpdate(field, value)
    IN IF commodity_update # NoText
          /\ commodity_update # Get(H.commodity_by_device, clean_id, NoText)
       THEN refresh_utility_entities_for_device(
                [H EXCEPT !.commodity_by_device = Put(@, clean_id, commodity_update)],
                clean_id, device_name, device_model)
       ELSE H

\* the latch result for the battery_ok reading of a device
LatchOf(H, clean_id, value) ==
    BatteryLatch(Get(H.battery_state, clean_id, NewBatteryState),
                 parse_boolish(value) = "T", now)

\* the field-specific transforms: the value to publish, or the rejection of
\* an unparseable battery_ok.  base is where the call's own messages start.
TransformValue(H, clean_id, field, value, device_model) ==
    [H |-> IF field = "battery_ok" /\ parse_boolish(value) # "N"
           THEN [H EXCEPT !.battery_state = Put(@, clean_id, LatchOf(H, clean_id, value).st)]
           ELSE H,
     base |-> Len(H.pubs),
     rejected |-> field = "battery_ok" /\ parse_boolish(value) = "N",
     out_value |->
        IF field = "battery_ok"
        THEN IF parse_boolish(value) = "N" THEN NoneV
             ELSE StrV(IF LatchOf(H, clean_id, value).low THEN "ON" ELSE "OFF")
        ELSE IF field \in UtilityFields
        THEN utility_normalize_value(H.commodity_by_device, H.device_model_by_id,
                                     clean_id, field, value, device_model)
        ELSE value,
     meta_override |->
        IF field \in UtilityFields
        THEN utility_meta_override(H.commodity_by_device, H.device_model_by_id,
                                   clean_id, field)
        ELSE NoMeta,
     published |-> FALSE, prev_sig |-> NoSig, sig |-> NoSig, prev_value |-> NoneV]

\* the delete of the old numeric battery sensor's discovery entry
MigrationDelete(unique_id_v2) == TextMsg(ConfigTopic("sensor", unique_id_v2), "")

\* the statements after the publish of the delete, which run unless it raised
MigrationDiscard(P, unique_id_v2) ==
    [P EXCEPT !.discovery_published = @ \ {unique_id_v2}]
MigrationAdd(P, unique_id_v2) ==
    [P EXCEPT !.migration_cleared = @ \cup {unique_id_v2}]
MigrationStored(P, unique_id_v2) ==
    IF P.raised THEN P
    ELSE MigrationAdd(MigrationDiscard(P, unique_id_v2), unique_id_v2)

\* one-time removal of the old numeric battery sensor
MigrateBattery(c, clean_id, field) ==
    IF ~c.H.raised /\ ~c.rejected /\ field = "battery_ok"
       /\ UniqueIdV2(clean_id, field) \notin c.H.migration_cleared
    THEN [c EXCEPT !.H = MigrationStored(
                             Publish(@, MigrationDelete(UniqueIdV2(clean_id, field))),
                             UniqueIdV2(clean_id, field))]
    ELSE c

\* the call's record after _publish_discovery returned disc
Discovered(c, disc, clean_id, field) ==
    [c EXCEPT !.H = disc.H,
              !.published = disc.published,
              !.sig = disc.sig,
              !.prev_sig = Get(c.H.discovery_sig, UniqueIdV2(clean_id, field), NoSig)]

\* the call to _publish_discovery
DiscoverEntity(c, clean_id, field, device_name, device_model, friendly_name) ==
    IF c.rejected \/ c.H.raised THEN c
    ELSE Discovered(c,
            publish_discovery(c.H, field, StateTopic(clean_id, field), clean_id,
                device_name, device_model,
                IF field = "battery_ok" /\ friendly_name = NoText
                THEN "Battery Low" ELSE friendly_name,
                IF field = "battery_ok" THEN "binary_sensor" ELSE "sensor",
                field = "battery_ok", c.meta_override),
            clean_id, field)

\* the statement after client.publish(state_topic, ...), which runs unless
\* the publish raised
StoreValue(P, unique_id_v2, out_value) ==
    IF P.raised THEN P
    ELSE [P EXCEPT !.last_sent_values = Put(@, unique_id_v2, out_value)]

\* the state publish at the end of send_sensor
PublishState(c, clean_id, field, is_rtl) ==
    LET unique_id_v2 == UniqueIdV2(clean_id, field)
        prev_value == Get(c.H.last_sent_values, unique_id_v2, NoneV)
    IN IF c.rejected \/ c.H.raised THEN c
       ELSE IF ShouldPublishState(prev_value, c.out_value, c.published, is_rtl)
       THEN [c EXCEPT !.prev_value = prev_value,
                      !.H = StoreValue(Publish(@, TextMsg(StateTopic(clean_id, field),
                                                          PyStr(c.out_value))),
                                       unique_id_v2, c.out_value)]
       ELSE [c EXCEPT !.prev_value = prev_value]

\* the handler after the call, with the call's record appended
FinishCall(c, clean_id, field, value, is_rtl, nested) ==
    [c.H EXCEPT !.calls = Append(@,
        CallRecord(clean_id, field, value, is_rtl, nested, c.rejected, c.prev_sig,
                   c.sig, c.prev_value, c.out_value, c.meta_override,
                   SubSeq(c.H.pubs, c.base + 1, Len(c.H.pubs))))]

\* send_sensor(sensor_id, field, value, device_name, device_model, is_rtl,
\* friendly_name); clean_id is clean_mac(sensor_id).  nested marks the calls
\* made by the refresh.
send_sensor(H, clean_id, field, value, device_name, device_model, is_rtl, friendly_name, nested) ==
    IF value.t = "none"
    THEN [H EXCEPT !.calls = Append(@, CallRecord(clean_id, field, value, is_rtl, nested,
              TRUE, NoSig, NoSig, NoneV, NoneV, NoMeta, <<>>))]
    ELSE FinishCall(
            PublishState(
                DiscoverEntity(
                    MigrateBattery(
                        TransformValue(
                            LearnCommodity(
                                RecordReading(H, clean_id, field, value, device_name,
                                              device_model),
                                clean_id, field, value, device_name, device_model),
                            clean_id, field, value, device_model),
                        clean_id, field),
                    clean_id, field, device_name, device_model, friendly_name),
                clean_id, field, is_rtl),
            clean_id, field, value, is_rtl, nested)

----------------------------------------------------------------------------
(* Observer of the battery_ok readings of each device: what was fed in and   *)
(* what came out, independent of the latch's own record.                     *)

MaxRun == 7

NewHist ==
    [ever_low |-> FALSE,     \* a not-ok reading was seen
     last_low_at |-> NoTime, \* time of the last not-ok reading
     first_ok_at |-> NoTime, \* time of the first ok reading after the last not-ok one
     ok_run |-> 0,           \* ok readings since the last not-ok one (up to MaxRun)
     gap |-> 0,              \* seconds from the last not-ok reading to the first ok one
     even |-> TRUE,          \* the ok readings of the run are gap seconds apart
     interrupted |-> FALSE,  \* the last not-ok reading cancelled a pending candidate
     last_ok |-> FALSE,      \* the last reading was ok
     last_at |-> NoTime,     \* time of the last reading
     out |-> NoText]         \* what was computed for the last reading

\* the battery_ok inputs of the model by what they mean
NotOkInputs == {IntV(0)}
OkInputs == {IntV(1), StrV("OK")}
UnparseableInputs == {StrV("junk")}

HistStep(h, c) ==
    IF c.value \in NotOkInputs
    THEN [ever_low |-> TRUE, last_low_at |-> c.at, first_ok_at |-> NoTime, ok_run |-> 0,
          gap |-> 0, even |-> TRUE,
          interrupted |-> h.ever_low /\ h.last_ok /\ h.out = "ON",
          last_ok |-> FALSE, last_at |-> c.at, out |-> c.out_value.s]
    ELSE [h EXCEPT !.first_ok_at = IF h.ok_run = 0 THEN c.at ELSE @,
                   !.ok_run = IF @ < MaxRun THEN @ + 1 ELSE @,
                   !.gap = IF h.ok_run = 0 /\ h.ever_low THEN c.at - h.last_low_at ELSE @,
                   !.even = IF h.ok_run >= 1 THEN @ /\ (c.at - h.last_at = h.gap) ELSE @,
                   !.last_ok = TRUE,
                   !.last_at = c.at,
                   !.out = c.out_value.s]

RECURSIVE HistAfter(_, _)
HistAfter(h, cs) ==
    IF cs = <<>> THEN h
    ELSE LET c == Head(cs)
             h1 == IF c.field = "battery_ok" /\ ~c.rejected
                   THEN Put(h, c.clean_id, HistStep(Get(h, c.clean_id, NewHist), c))
                   ELSE h
         IN HistAfter(h1, Tail(cs))

----------------------------------------------------------------------------
(* Inputs *)

RawIds == {<<"D", ":", "1">>, <<"e", "2">>}
DeviceModelOf(clean_id) == IF clean_id = "d1" THEN "SCMplus" ELSE "Neptune-R900"
DeviceNameOf(clean_id) == DeviceModelOf(clean_id) \o " " \o clean_id

ValuesOf(field) ==
    CASE field = "Consumption" -> {IntV(217504), IntV(300)}
      [] field = "meter_reading" -> {IntV(1000), NoneV}
      [] field = "MeterType" -> {StrV("Gas"), StrV(" Electric "), StrV("junk")}
      [] field = "ert_type" -> {IntV(3)}
      [] field = "temperature" -> {IntV(20), IntV(21)}
      [] field = "battery_ok" -> NotOkInputs \cup OkInputs \cup UnparseableInputs
      [] OTHER -> {}

ClearAfterChoices == {0, 2}

\* no reading was handed to dispatch_reading by the step
NoReading == [id |-> <<>>, field |-> NoText, value |-> NoneV]

\* the producer threads (one rtl_loop per radio) and where a thread is when
\* it is not inside send_sensor
Producers == {1, 2}
Idle == [pc |-> "idle"]

InitHandler ==
    /\ discovery_published = {}
    /\ last_sent_values = EmptyMap
    /\ tracked_devices = {}
    /\ migration_cleared = {}
    /\ battery_state = EmptyMap
    /\ commodity_by_device = EmptyMap
    /\ device_model_by_id = EmptyMap
    /\ utility_last_raw = <<>>
    /\ discovery_sig = EmptyMap
    /\ buffer = <<>>
    /\ last_flush = 0
    /\ broker = EmptyMap
    /\ pubs = <<>>
    /\ calls = <<>>
    /\ hist = EmptyMap
    /\ now = 0
    /\ nuke_counter = 0
    /\ nuke_last_press = 0
    /\ is_nuking = FALSE
    /\ nuke_subscribed = FALSE
    /\ nuke_timers = <<>>
    /\ current_batch = <<>>
    /\ arrived = NoReading
    /\ accepted = EmptyMap
    /\ reduced = EmptyMap
    /\ failed = <<>>
    /\ raised = FALSE
    /\ flusher_alive = TRUE
    /\ threads = [t \in Producers |-> Idle]
    /\ presses = <<>>
    /\ capture_fp = FALSE
    /\ capture_active_until = 0
    /\ capture_path = NoTime
    /\ capture_last_error = NoText
    /\ capture_file = <<>>
    /\ capture_timers = {}
    /\ detected_devices = <<>>
    /\ serial_to_index = EmptyMap
    /\ radios = <<>>
    /\ details_cache = EmptyMap
    /\ stop_pc = "running"

NoPlan == [todo |-> <<>>, all |-> <<>>]

\* the handler's variables after a step that ran the calls leading to `after'
HandlerBecomes(after) ==
    \E H \in {after} :
        /\ discovery_published' = H.discovery_published
        /\ last_sent_values' = H.last_sent_values
        /\ tracked_devices' = H.tracked_devices
        /\ migration_cleared' = H.migration_cleared
        /\ battery_state' = H.battery_state
        /\ commodity_by_device' = H.commodity_by_device
        /\ device_model_by_id' = H.device_model_by_id
        /\ utility_last_raw' = H.utility_last_raw
        /\ discovery_sig' = H.discovery_sig
        /\ broker' = H.broker
        /\ pubs' = H.pubs
        /\ calls' = H.calls
        /\ failed' = H.failed
        /\ raised' = H.raised
        /\ hist' = HistAfter(hist, H.calls)

\* one call of send_sensor from outside (direct, or through an unthrottled
\* dispatch_reading, which passes is_rtl=True), whose publishes meet the
\* outcomes of faults
SendWith(faults, sensor_id, field, value, is_rtl) ==
    LET clean_id == clean_mac(sensor_id)
    IN /\ HandlerBecomes(send_sensor(HandlerWithFaults(faults), clean_id, field, value,
                                     DeviceNameOf(clean_id), DeviceModelOf(clean_id),
                                     is_rtl, NoText, FALSE))
       /\ UNCHANGED <<now, config, field_meta_table, side_vars, flusher_alive,
                      buffer, last_flush, nuke_vars,
                      current_batch>>

\* the call when every publish succeeds
SendSensorCall(sensor_id, field, value, is_rtl) == SendWith(<<>>, sensor_id, field, value, is_rtl)

\* time passes, up to a bound
TickTo(limit) ==
    /\ now < limit
    /\ now' = now + 1
    /\ pubs' = <<>>
    /\ calls' = <<>>
    /\ UNCHANGED <<config, field_meta_table, side_vars, failed, raised, flusher_alive,
                   discovery_published, last_sent_values,
                   tracked_devices, migration_cleared, battery_state, commodity_by_device,
                   device_model_by_id, utility_last_raw, discovery_sig, buffer, last_flush,
                   broker, hist, plan, nuke_vars, current_batch, observers>>

----------------------------------------------------------------------------
(* The publisher fed with utility, hint and plain readings *)

\* the readings each device sends
FieldsOf(clean_id) ==
    IF clean_id = "d1" THEN {"Consumption", "meter_reading", "MeterType"}
    ELSE {"meter_reading"}

Init ==
    /\ InitHandler
    /\ plan = NoPlan
    /\ config \in [BATTERY_OK_CLEAR_AFTER : {0}, gas_unit : {"ft3", "ccf"},
                   RTL_THROTTLE_INTERVAL : {0}]
    /\ field_meta_table \in {"classed", "plain"}

SendReading ==
    \E sensor_id \in RawIds, is_rtl \in BOOLEAN :
        \E field \in FieldsOf(clean_mac(sensor_id)) :
            \E value \in ValuesOf(field) :
                /\ SendSensorCall(sensor_id, field, value, is_rtl)
                /\ UNCHANGED <<plan, observers>>

Next == SendReading

Spec == Init /\ [][Next]_vars

----------------------------------------------------------------------------
(* The battery latch fed with battery_ok readings over time *)

InitBattery ==
    /\ InitHandler
    /\ plan = NoPlan
    /\ config \in [BATTERY_OK_CLEAR_AFTER : ClearAfterChoices, gas_unit : {"ft3"},
                   RTL_THROTTLE_INTERVAL : {0}]
    /\ field_meta_table = "classed"

BatteryIds == {<<"D", ":", "1">>}

SendBattery ==
    \E sensor_id \in BatteryIds, is_rtl \in BOOLEAN :
        \E value \in ValuesOf("battery_ok") :
            /\ SendSensorCall(sensor_id, "battery_ok", value, is_rtl)
            /\ UNCHANGED <<plan, observers>>

Tick == TickTo(MaxTime)

NextBattery == SendBattery \/ Tick

SpecBattery == InitBattery /\ [][NextBattery]_vars

----------------------------------------------------------------------------
(* data_processor: _aggregation_mode, dispatch_reading, start_throttle_loop *)

NON_AVERAGED_NUMERIC_FIELDS == {"battery_ok"}

\* str(field).strip().lower() on the field names of the model
LowerField(f) ==
    CASE f = "Wind_Dir" -> "wind_dir"
      [] f = "WIND_DIR_DEG" -> "wind_dir_deg"
      [] f = "RSSI" -> "rssi"
      [] f = "MeterType" -> "metertype"
      [] f = "Consumption" -> "consumption"
      [] OTHER -> f
\* "gust" in f_l
HasGust(f_l) == f_l \in {"gust", "wind_gust", "wind_max_gust"}

\* a variant that compares the field name as written
AggregationModeCaseSensitive(field, device_model) ==
    IF field \in NON_AVERAGED_NUMERIC_FIELDS THEN "last"
    ELSE IF field \in {"wind_dir", "wind_dir_deg"} THEN "last"
    ELSE IF HasGust(field) THEN "max"
    ELSE IF field \in {"rssi", "snr", "noise", "rssi_db", "snr_db", "noise_db"} THEN "max"
    ELSE IF field \in {"counter", "sequence", "strikes", "strike_count"} THEN "last"
    ELSE "mean"

aggregation_mode(field, device_model) ==
    LET f_l == LowerField(field)
        meta == get_field_meta(field, device_model)
    IN IF field \in NON_AVERAGED_NUMERIC_FIELDS THEN "last"
       ELSE IF f_l \in {"wind_dir", "wind_dir_deg"} THEN "last"
       ELSE IF HasGust(f_l) THEN "max"
       ELSE IF f_l \in {"rssi", "snr", "noise", "rssi_db", "snr_db", "noise_db"} THEN "max"
       ELSE IF f_l \in {"counter", "sequence", "strikes", "strike_count"} THEN "last"
       ELSE IF meta # NoMeta /\ meta[2] \in {"gas", "energy", "water", "precipitation"}
            THEN "last"
       ELSE "mean"

AllNum(values) == \A i \in 1..Len(values) : IsNum(values[i])

RECURSIVE SumHundredths(_)
SumHundredths(values) ==
    IF values = <<>> THEN 0 ELSE Hundredths(Head(values)) + SumHundredths(Tail(values))

\* a variant that takes the latest value for the greatest
MaxValueTakesLast(values) == Last(values)

\* max(values): the first of the greatest
MaxValue(values) ==
    values[CHOOSE i \in 1..Len(values) :
              /\ \A j \in 1..Len(values) : Hundredths(values[j]) <= Hundredths(values[i])
              /\ \A j \in 1..(i - 1) : Hundredths(values[j]) < Hundredths(values[i])]

\* a variant that cuts the quotient off instead of rounding it
RoundDivTruncates(total, n) == total \div n

\* round(x, 2) of the exact quotient total / n of hundredths, half to even
RoundDiv(total, n) ==
    LET q == total \div n
        r == total % n
    IN IF 2 * r > n \/ (2 * r = n /\ q % 2 = 1) THEN q + 1 ELSE q

\* round(statistics.mean(values), 2): the mean of ints that is a whole number
\* stays an int
MeanValue(values) ==
    LET total == SumHundredths(values)
        n == Len(values)
    IN IF (\A i \in 1..n : values[i].t = "int") /\ total % (100 * n) = 0
       THEN IntV(total \div (100 * n))
       ELSE FloatV(RoundDiv(total, n))

\* a float that is_integer() becomes an int
IntLike(v) == IF v.t = "float" /\ v.n % 100 = 0 THEN IntV(v.n \div 100) ELSE v

\* a variant that gives up the field when the arithmetic fails
AggregateDropsOnFailure(field, model, values) ==
    IF ~IsNum(values[1]) \/ aggregation_mode(field, model) = "last"
    THEN IntLike(Last(values))
    ELSE IF ~AllNum(values) THEN NoneV
    ELSE IF aggregation_mode(field, model) = "max" THEN IntLike(MaxValue(values))
    ELSE IntLike(MeanValue(values))

\* a variant that keeps the first value where the last is due
AggregateTakesFirst(field, model, values) ==
    IF ~IsNum(values[1]) \/ aggregation_mode(field, model) = "last" \/ ~AllNum(values)
    THEN IntLike(values[1])
    ELSE IF aggregation_mode(field, model) = "max" THEN IntLike(MaxValue(values))
    ELSE IntLike(MeanValue(values))

\* the reduction of one field's values in the flush; arithmetic on a text
\* among numbers raises and falls back to the last raw value
Aggregate(field, model, values) ==
    LET mode == aggregation_mode(field, model)
    IN IF ~IsNum(values[1]) THEN IntLike(Last(values))
       ELSE IF mode = "last" THEN IntLike(Last(values))
       ELSE IF ~AllNum(values) THEN Last(values)
       ELSE IF mode = "max" THEN IntLike(MaxValue(values))
       ELSE IntLike(MeanValue(values))

BufferIndex(buf, id) == {i \in 1..Len(buf) : buf[i].id = id}
FieldIndex(fields, field) == {i \in 1..Len(fields) : fields[i].field = field}

\* the buffered branch of dispatch_reading: self.buffer after the append
BufferAppend(buf, id, field, value, dev_name, model, radio_name, radio_freq) ==
    LET with_device ==
            IF BufferIndex(buf, id) = {}
            THEN Append(buf, [id |-> id,
                              meta |-> [name |-> dev_name, model |-> model,
                                        radio |-> radio_name, freq |-> radio_freq],
                              fields |-> <<>>])
            ELSE [i \in 1..Len(buf) |->
                    IF buf[i].id = id
                    THEN [buf[i] EXCEPT !.meta.radio = radio_name, !.meta.freq = radio_freq]
                    ELSE buf[i]]
        k == CHOOSE i \in 1..Len(with_device) : with_device[i].id = id
        fields == with_device[k].fields
        new_fields ==
            IF FieldIndex(fields, field) = {}
            THEN Append(fields, [field |-> field, values |-> <<value>>])
            ELSE [i \in 1..Len(fields) |->
                    IF fields[i].field = field
                    THEN [fields[i] EXCEPT !.values = Append(@, value)]
                    ELSE fields[i]]
    IN [with_device EXCEPT ![k].fields = new_fields]

RECURSIVE FieldItems(_, _)
\* the values one device contributes to a flush, field by field in the
\* order of insertion
FieldItems(dev, fields) ==
    IF fields = <<>> THEN <<>>
    ELSE LET fv == Head(fields)
             rest == FieldItems(dev, Tail(fields))
         IN IF fv.values = <<>> THEN rest
            ELSE <<[id |-> clean_mac(dev.id), field |-> fv.field,
                    value |-> Aggregate(fv.field, dev.meta.model, fv.values),
                    name |-> dev.meta.name, model |-> dev.meta.model]>> \o rest

\* a variant that publishes only the first device of the batch
BatchItemsFirstDeviceOnly(batch) ==
    IF batch = <<>> THEN <<>> ELSE FieldItems(Head(batch), Head(batch).fields)

RECURSIVE BatchItems(_)
\* the values a batch publishes, device by device in the order of insertion
BatchItems(batch) ==
    IF batch = <<>> THEN <<>>
    ELSE FieldItems(Head(batch), Head(batch).fields) \o BatchItems(Tail(batch))

RECURSIVE FlushItems(_, _)
\* the send_sensor calls of one flush, in order
FlushItems(H, items) ==
    IF items = <<>> \/ H.raised THEN H
    ELSE FlushItems(send_sensor(H, Head(items).id, Head(items).field, Head(items).value, Head(items).name, Head(items).model, TRUE, NoText, FALSE),
                    Tail(items))

\* what the flush does with the batch it swapped out
FlushBatch(H, batch) == FlushItems(H, BatchItems(batch))

ThrottleInterval == config.RTL_THROTTLE_INTERVAL

\* how many values the buffer holds
RECURSIVE BufferedIn(_)
BufferedIn(fields) ==
    IF fields = <<>> THEN 0 ELSE Len(Head(fields).values) + BufferedIn(Tail(fields))
RECURSIVE Buffered(_)
Buffered(buf) ==
    IF buf = <<>> THEN 0 ELSE BufferedIn(Head(buf).fields) + Buffered(Tail(buf))

\* a variant without the check for a null reading
DispatchReadingKeepsNull(id, field, value, radio_name, radio_freq) ==
    IF ThrottleInterval <= 0
    THEN SendSensorCall(id, field, value, TRUE)
    ELSE /\ Buffered(buffer) < MaxBuf
         /\ buffer' = BufferAppend(buffer, id, field, value, DeviceNameOf(clean_mac(id)),
                                   DeviceModelOf(clean_mac(id)), radio_name, radio_freq)
         /\ pubs' = <<>>
         /\ calls' = <<>>
         /\ UNCHANGED <<now, config, field_meta_table, side_vars, failed, raised, flusher_alive,
                        discovery_published,
                        last_sent_values, tracked_devices, migration_cleared,
                        battery_state, commodity_by_device, device_model_by_id,
                        utility_last_raw, discovery_sig, last_flush, broker, hist,
                        nuke_vars, current_batch>>

\* DataProcessor.dispatch_reading
DispatchReading(id, field, value, radio_name, radio_freq) ==
    LET dev == clean_mac(id)
    IN IF value.t = "none"
       THEN /\ pubs' = <<>>
            /\ calls' = <<>>
            /\ UNCHANGED <<now, config, field_meta_table, side_vars, failed, raised, flusher_alive,
                           discovery_published,
                           last_sent_values, tracked_devices, migration_cleared,
                           battery_state, commodity_by_device, device_model_by_id,
                           utility_last_raw, discovery_sig, buffer, last_flush, broker,
                           hist, nuke_vars, current_batch>>
       ELSE IF ThrottleInterval <= 0
       THEN SendSensorCall(id, field, value, TRUE)
       ELSE /\ Buffered(buffer) < MaxBuf
            /\ buffer' = BufferAppend(buffer, id, field, value, DeviceNameOf(dev),
                                      DeviceModelOf(dev), radio_name, radio_freq)
            /\ pubs' = <<>>
            /\ calls' = <<>>
            /\ UNCHANGED <<now, config, field_meta_table, side_vars, failed, raised, flusher_alive,
                           discovery_published,
                           last_sent_values, tracked_devices, migration_cleared,
                           battery_state, commodity_by_device, device_model_by_id,
                           utility_last_raw, discovery_sig, last_flush, broker, hist,
                           nuke_vars, current_batch>>

\* one round of start_throttle_loop: wake up after time.sleep(interval), swap
\* the buffer out and publish one value for each field of each device.  An
\* exception of send_sensor leaves the loop and ends the thread.
FlushWith(faults) ==
    /\ flusher_alive
    /\ ThrottleInterval > 0
    /\ now >= last_flush + ThrottleInterval
    /\ last_flush' = now
    /\ buffer' = <<>>
    /\ HandlerBecomes(FlushBatch(HandlerWithFaults(faults), buffer))
    /\ flusher_alive' = ~raised'
    /\ UNCHANGED <<now, config, field_meta_table, side_vars, nuke_vars, current_batch>>

\* the round when every publish succeeds
Flush == FlushWith(<<>>)

----------------------------------------------------------------------------
(* A commodity hint and a utility total of one device, sent in either order *)

Reading(sensor_id, field, value, is_rtl) ==
    [sensor_id |-> sensor_id, field |-> field, value |-> value, is_rtl |-> is_rtl]

PlannedHints ==
    {Reading(<<"D", ":", "1">>, "MeterType", v, r) :
        v \in ValuesOf("MeterType"), r \in BOOLEAN}
PlannedTotals ==
    {Reading(<<"D", ":", "1">>, f, v, r) :
        f \in {"Consumption", "meter_reading"}, v \in {IntV(217504), IntV(1000)},
        r \in BOOLEAN}

InitOrder ==
    /\ InitHandler
    /\ config \in [BATTERY_OK_CLEAR_AFTER : {0}, gas_unit : {"ft3", "ccf"},
                   RTL_THROTTLE_INTERVAL : {0}]
    /\ field_meta_table \in {"classed", "plain"}
    /\ \E h \in PlannedHints, t \in PlannedTotals :
          \E all \in {<<h, t>>, <<t, h>>} : plan = [todo |-> all, all |-> all]

SendPlanned ==
    /\ plan.todo # <<>>
    /\ LET r == Head(plan.todo)
       IN SendSensorCall(r.sensor_id, r.field, r.value, r.is_rtl)
    /\ plan' = [plan EXCEPT !.todo = Tail(@)]
    /\ UNCHANGED observers

NextOrder == SendPlanned

SpecOrder == InitOrder /\ [][NextOrder]_vars

----------------------------------------------------------------------------
(* One commodity hint of a device: a type code as a number or as text, or a *)
(* commodity name, under an ert_type field or a generic type field          *)

TypeCodes == -1..MaxCode
TypeValues ==
    {IntV(c) : c \in TypeCodes} \cup {FloatV(100 * c) : c \in TypeCodes}
        \cup {FloatV(100 * c + 50) : c \in TypeCodes}
        \cup {StrV(ToString(c)) : c \in TypeCodes}
        \cup {StrV("Gas"), StrV(" Electric "), StrV("junk"), NoneV}
PlannedTypes ==
    {Reading(<<"D", ":", "1">>, f, v, TRUE) :
        f \in {"ert_type", "type", "Type"}, v \in TypeValues}

InitTypeField ==
    /\ InitHandler
    /\ config \in [BATTERY_OK_CLEAR_AFTER : {0}, gas_unit : {"ft3"},
                   RTL_THROTTLE_INTERVAL : {0}]
    /\ field_meta_table = "classed"
    /\ \E h \in PlannedTypes : plan = [todo |-> <<h>>, all |-> <<h>>]

NextTypeField == SendPlanned

SpecTypeField == InitTypeField /\ [][NextTypeField]_vars

----------------------------------------------------------------------------
(* battery_ok readings through the aggregation buffer *)

MaxThrottleTime == 8

InitThrottle ==
    /\ InitHandler
    /\ plan = NoPlan
    /\ config \in [BATTERY_OK_CLEAR_AFTER : {0, 5}, gas_unit : {"ft3"},
                   RTL_THROTTLE_INTERVAL : {0, 1}]
    /\ field_meta_table = "classed"

DispatchBattery ==
    \E value \in NotOkInputs \cup OkInputs \cup {NoneV} :
        /\ DispatchReading(<<"D", ":", "1">>, "battery_ok", value, "RTL_101", "433.92M")
        /\ UNCHANGED <<plan, observers>>

FlushBuffer == Flush /\ UNCHANGED <<plan, observers>>

TickThrottle == TickTo(MaxThrottleTime)

NextThrottle == DispatchBattery \/ FlushBuffer \/ TickThrottle

SpecThrottle == InitThrottle /\ [][NextThrottle]_vars

----------------------------------------------------------------------------
(* The nuke button: _handle_nuke_press, nuke_all, the scan in _on_message   *)
(* and _stop_nuke_scan                                                       *)

NUKE_THRESHOLD == 5
NUKE_TIMEOUT == 5
NUKE_SCAN_SECONDS == 5
MaxTimers == 1

TOPIC_AVAILABILITY == "home/status/rtl_bridge" \o ID_SUFFIX \o "/availability"

ButtonNames == {"nuke", "restart", "capture"}
ButtonUid(b) == "rtl_bridge_" \o b \o ID_SUFFIX
ButtonTopic(b) == "homeassistant/button/" \o ButtonUid(b) \o "/config"

\* the discovery config of _publish_nuke_button / _restart_ / _capture_
ButtonMsg(b) ==
    ConfigMsg(ButtonTopic(b),
              [unique_id |-> ButtonUid(b),
               command_topic |-> "home/status/rtl_bridge" \o ID_SUFFIX \o "/" \o b \o "/set",
               entity_category |-> "config",
               device |-> [manufacturer |-> "rtl-haos", model |-> BRIDGE_NAME],
               availability_topic |-> TOPIC_AVAILABILITY])

\* fields of the model whose name holds one of the words nuke, restart, capture
ControlWordFields == {"capture_status"}

\* "nuke" in msg.topic or "restart" in msg.topic or "capture" in msg.topic, on
\* the topics of the model: the three buttons, and the entities of a field
\* whose name holds one of the words
IsControlTopic(topic) ==
    \/ topic \in {ButtonTopic(b) : b \in ButtonNames}
    \/ \E id \in {"d1", "e2"}, f \in ControlWordFields, domain \in {"sensor", "binary_sensor"} :
          topic = ConfigTopic(domain, UniqueIdV2(id, f))

\* the manufacturers of the model, and `"rtl-haos" in manufacturer' on them
Manufacturers == {"rtl-haos", "rtl-haos (fork)", "zigbee2mqtt"}
HasSignature(manufacturer) == manufacturer \in {"rtl-haos", "rtl-haos (fork)"}

\* the topic matches the subscription homeassistant/+/+/config
IsDiscoveryTopic(msg) == msg.kind = "config"

\* a variant that counts every press, however long ago the last one was
NukePressNeverExpires ==
    LET counted == nuke_counter + 1
    IN /\ nuke_last_press' = now
       /\ IF NUKE_THRESHOLD - counted > 0
          THEN /\ nuke_counter' = counted
               /\ UNCHANGED <<is_nuking, nuke_subscribed, nuke_timers>>
          ELSE /\ Len(nuke_timers) < MaxTimers
               /\ is_nuking' = TRUE
               /\ nuke_subscribed' = TRUE
               /\ nuke_timers' = Append(nuke_timers, now + NUKE_SCAN_SECONDS)
               /\ nuke_counter' = 0
       /\ pubs' = <<>>
       /\ calls' = <<>>
       /\ UNCHANGED <<now, config, field_meta_table, threads, capture_vars, startup_vars, details_vars, shutdown_vars,
                      failed, raised, flusher_alive, discovery_published,
                      last_sent_values, tracked_devices, migration_cleared, battery_state,
                      commodity_by_device, device_model_by_id, utility_last_raw,
                      discovery_sig, buffer, last_flush, broker, hist, current_batch>>

\* a message on the nuke command topic: _handle_nuke_press, with nuke_all
\* when the threshold is met; at most limit stop timers are pending at a time
NukePressUpTo(limit) ==
    LET counted == (IF now - nuke_last_press > NUKE_TIMEOUT THEN 0 ELSE nuke_counter) + 1
    IN /\ nuke_last_press' = now
       /\ IF NUKE_THRESHOLD - counted > 0
          THEN /\ nuke_counter' = counted
               /\ UNCHANGED <<is_nuking, nuke_subscribed, nuke_timers>>
          ELSE /\ Len(nuke_timers) < limit
               /\ is_nuking' = TRUE
               /\ nuke_subscribed' = TRUE
               /\ nuke_timers' = Append(nuke_timers, now + NUKE_SCAN_SECONDS)
               /\ nuke_counter' = 0
       /\ pubs' = <<>>
       /\ calls' = <<>>
       /\ UNCHANGED <<now, config, field_meta_table, threads, capture_vars, startup_vars, details_vars, shutdown_vars,
                      failed, raised, flusher_alive, discovery_published,
                      last_sent_values, tracked_devices, migration_cleared, battery_state,
                      commodity_by_device, device_model_by_id, utility_last_raw,
                      discovery_sig, buffer, last_flush, broker, hist, current_batch>>

NukePress == NukePressUpTo(MaxTimers)

\* the retained discovery config of a topic, delivered to _on_message while
\* the client is subscribed to homeassistant/+/+/config
NukeScanOf(topic) ==
    /\ nuke_subscribed
    /\ topic \in DOMAIN broker
    /\ IsDiscoveryTopic(broker[topic])
    /\ IF is_nuking /\ HasSignature(broker[topic].cfg.device.manufacturer)
          /\ ~IsControlTopic(topic)
       THEN /\ pubs' = <<TextMsg(topic, "")>>
            /\ broker' = Retain(broker, TextMsg(topic, ""))
       ELSE /\ pubs' = <<>>
            /\ UNCHANGED broker
    /\ calls' = <<>>
    /\ UNCHANGED <<now, config, field_meta_table, threads, presses, capture_vars,
                   startup_vars, details_vars, shutdown_vars, failed, raised, flusher_alive, discovery_published,
                   last_sent_values, tracked_devices, migration_cleared, battery_state,
                   commodity_by_device, device_model_by_id, utility_last_raw,
                   discovery_sig, buffer, last_flush, hist, nuke_vars, current_batch>>

NukeScanMessage == \E topic \in DOMAIN broker : NukeScanOf(topic)

RECURSIVE RetainAll(_, _)
RetainAll(b, msgs) ==
    IF msgs = <<>> THEN b ELSE RetainAll(Retain(b, Head(msgs)), Tail(msgs))

\* what _stop_nuke_scan publishes: availability and the three buttons
RestoredMsgs ==
    <<TextMsg(TOPIC_AVAILABILITY, "online"), ButtonMsg("nuke"), ButtonMsg("restart"),
      ButtonMsg("capture")>>

\* a variant of _stop_nuke_scan that keeps the discovery signatures
StopNukeScanKeepsSignatures ==
    /\ nuke_timers # <<>>
    /\ now >= Head(nuke_timers)
    /\ nuke_timers' = Tail(nuke_timers)
    /\ is_nuking' = FALSE
    /\ nuke_subscribed' = FALSE
    /\ discovery_published' = {}
    /\ last_sent_values' = EmptyMap
    /\ tracked_devices' = {}
    /\ pubs' = RestoredMsgs
    /\ broker' = RetainAll(broker, RestoredMsgs)
    /\ calls' = <<>>
    /\ UNCHANGED <<now, config, field_meta_table, side_vars, failed, raised, flusher_alive,
                   migration_cleared, battery_state, discovery_sig,
                   commodity_by_device, device_model_by_id, utility_last_raw, buffer,
                   last_flush, hist, nuke_counter, nuke_last_press, current_batch>>

\* the 5-second timer of nuke_all fires: _stop_nuke_scan
StopNukeScan ==
    /\ nuke_timers # <<>>
    /\ now >= Head(nuke_timers)
    /\ nuke_timers' = Tail(nuke_timers)
    /\ is_nuking' = FALSE
    /\ nuke_subscribed' = FALSE
    /\ discovery_published' = {}
    /\ last_sent_values' = EmptyMap
    /\ tracked_devices' = {}
    /\ discovery_sig' = EmptyMap
    /\ pubs' = RestoredMsgs
    /\ broker' = RetainAll(broker, RestoredMsgs)
    /\ calls' = <<>>
    /\ UNCHANGED <<now, config, field_meta_table, side_vars, failed, raised, flusher_alive,
                   migration_cleared, battery_state,
                   commodity_by_device, device_model_by_id, utility_last_raw, buffer,
                   last_flush, hist, nuke_counter, nuke_last_press, current_batch>>

----------------------------------------------------------------------------
(* Commodity hints of one device, with the nuke button *)

MaxNukeTime == 6

InitNuke ==
    /\ InitHandler
    /\ plan = NoPlan
    /\ config \in [BATTERY_OK_CLEAR_AFTER : {0}, gas_unit : {"ft3"},
                   RTL_THROTTLE_INTERVAL : {0}]
    /\ field_meta_table = "classed"

\* the ert_type hints fed: gas, water, a code of no commodity, and text that
\* is no number
HintValues == {IntV(0), IntV(3), IntV(6), StrV("junk")}

SendHint ==
    \E value \in HintValues :
        /\ SendSensorCall(<<"D", ":", "1">>, "ert_type", value, TRUE)
        /\ UNCHANGED <<plan, observers>>

PressNuke == NukePress /\ UNCHANGED <<plan, observers, presses>>
ScanMessage == NukeScanMessage /\ UNCHANGED <<plan, observers>>
StopScan == StopNukeScan /\ UNCHANGED <<plan, observers>>
TickNuke == TickTo(MaxNukeTime)

NextNuke == SendHint \/ PressNuke \/ ScanMessage \/ StopScan \/ TickNuke

SpecNuke == InitNuke /\ [][NextNuke]_vars

----------------------------------------------------------------------------
(* Readings of totals and of other fields, on a device that learns its      *)
(* commodity and on one that never does                                      *)

UnitFieldsOf(clean_id) ==
    IF clean_id = "d1" THEN {"Consumption", "MeterType", "temperature", "battery_ok"}
    ELSE {"meter_reading"}

UnitValuesOf(field) ==
    CASE field = "Consumption" -> {IntV(300)}
      [] field = "meter_reading" -> {IntV(1000), StrV("12")}
      [] field = "MeterType" -> {StrV("Gas"), StrV("junk")}
      [] field = "temperature" -> {FloatV(2150)}
      [] field = "battery_ok" -> {IntV(1), IntV(0)}
      [] OTHER -> {}

InitUnits ==
    /\ InitHandler
    /\ plan = NoPlan
    /\ config \in [BATTERY_OK_CLEAR_AFTER : {0}, gas_unit : {"ccf"},
                   RTL_THROTTLE_INTERVAL : {0}]
    /\ field_meta_table \in {"classed", "plain"}

SendUnitReading ==
    \E sensor_id \in RawIds :
        \E field \in UnitFieldsOf(clean_mac(sensor_id)) :
            \E value \in UnitValuesOf(field) :
                /\ SendSensorCall(sensor_id, field, value, TRUE)
                /\ UNCHANGED <<plan, observers>>

NextUnits == SendUnitReading

SpecUnits == InitUnits /\ [][NextUnits]_vars

----------------------------------------------------------------------------
(* Producer threads and the flush thread.  The flush thread takes the lock  *)
(* only to swap the buffer out; it reduces and publishes the batch after    *)
(* releasing it, while producers go on appending to the new buffer.  The    *)
(* producers touch only the buffer and the reduction only the batch and the *)
(* handler, so the reduction of one batch is one step.  time.sleep returns  *)
(* at any moment.                                                            *)

MaxReadings == 3

\* the values a buffer or a batch holds for a device and a field, in order
RECURSIVE ValuesInFields(_, _)
ValuesInFields(fields, field) ==
    IF fields = <<>> THEN <<>>
    ELSE (IF Head(fields).field = field THEN Head(fields).values ELSE <<>>)
         \o ValuesInFields(Tail(fields), field)
RECURSIVE ValuesOfKey(_, _, _)
ValuesOfKey(buf, dev, field) ==
    IF buf = <<>> THEN <<>>
    ELSE (IF clean_mac(Head(buf).id) = dev
          THEN ValuesInFields(Head(buf).fields, field) ELSE <<>>)
         \o ValuesOfKey(Tail(buf), dev, field)

\* the <<device, field>> pairs a buffer or a batch holds values for
AllKeys ==
    {<<clean_mac(id), f>> : id \in RawIds,
                            f \in {"temperature", "Wind_Dir", "WIND_DIR_DEG", "RSSI",
                                   "battery_ok"}}
KeysOf(buf) == {k \in AllKeys : ValuesOfKey(buf, k[1], k[2]) # <<>>}

\* how many readings the producers have handed to the buffer so far
RECURSIVE CountAll(_, _)
CountAll(m, keys) ==
    IF keys = {} THEN 0
    ELSE LET k == CHOOSE x \in keys : TRUE
         IN Len(m[k]) + CountAll(m, keys \ {k})

ConcurrentFieldsOf(dev) ==
    IF dev = "d1" THEN {"temperature", "Wind_Dir"} ELSE {"temperature"}

ConcurrentValuesOf(field) ==
    IF field = "temperature" THEN {IntV(20), IntV(21), NoneV} ELSE {IntV(350), NoneV}

InitConcurrent ==
    /\ InitHandler
    /\ plan = NoPlan
    /\ config \in [BATTERY_OK_CLEAR_AFTER : {0}, gas_unit : {"ft3"},
                   RTL_THROTTLE_INTERVAL : {-1, 0, 1}]
    /\ field_meta_table = "classed"

\* a producer thread calls dispatch_reading
Produce ==
    \E id \in RawIds :
        \E field \in ConcurrentFieldsOf(clean_mac(id)) :
            \E value \in ConcurrentValuesOf(field) :
                /\ CountAll(accepted, DOMAIN accepted) < MaxReadings
                /\ DispatchReading(id, field, value, "RTL_101", "433.92M")
                /\ arrived' = [id |-> clean_mac(id), field |-> field, value |-> value]
                /\ accepted' =
                      IF value # NoneV /\ ThrottleInterval > 0
                      THEN Put(accepted, <<clean_mac(id), field>>,
                               Append(Get(accepted, <<clean_mac(id), field>>, <<>>), value))
                      ELSE accepted
                /\ UNCHANGED <<plan, reduced>>

\* a variant of the swap that leaves the readings in the buffer
FlushSwapKeepsBuffer ==
    /\ ThrottleInterval > 0
    /\ current_batch = <<>>
    /\ current_batch' = buffer
    /\ pubs' = <<>>
    /\ calls' = <<>>
    /\ arrived' = NoReading
    /\ UNCHANGED <<now, config, field_meta_table, side_vars, failed, raised, flusher_alive,
                   discovery_published, last_sent_values,
                   tracked_devices, migration_cleared, battery_state, commodity_by_device,
                   device_model_by_id, utility_last_raw, discovery_sig, buffer, last_flush,
                   broker, hist, nuke_vars, plan, accepted, reduced>>

\* the flush thread wakes up and, holding the lock, swaps the buffer out; an
\* empty buffer sends it back to sleep
SwapBuffers ==
    /\ flusher_alive
    /\ ThrottleInterval > 0
    /\ current_batch = <<>>
    /\ current_batch' = buffer
    /\ buffer' = <<>>
    /\ pubs' = <<>>
    /\ calls' = <<>>
    /\ arrived' = NoReading
    /\ UNCHANGED <<now, config, field_meta_table, side_vars, failed, raised, flusher_alive,
                   discovery_published, last_sent_values,
                   tracked_devices, migration_cleared, battery_state, commodity_by_device,
                   device_model_by_id, utility_last_raw, discovery_sig, last_flush,
                   broker, hist, nuke_vars, plan>>

FlushSwap == SwapBuffers /\ UNCHANGED <<accepted, reduced>>

\* the flush thread reduces the batch and publishes one value for each field
\* of each device in it
ProcessBatch ==
    /\ flusher_alive
    /\ current_batch # <<>>
    /\ HandlerBecomes(FlushBatch(Handler, current_batch))
    /\ flusher_alive' = ~raised'
    /\ current_batch' = <<>>
    /\ arrived' = NoReading
    /\ UNCHANGED <<now, config, field_meta_table, side_vars, buffer, last_flush, nuke_vars, plan,
                   accepted>>

\* ProcessBatch, with the record of the readings it reduced
FlushProcess ==
    /\ ProcessBatch
    /\ reduced' = [k \in (DOMAIN reduced) \cup KeysOf(current_batch) |->
                      Get(reduced, k, <<>>) \o ValuesOfKey(current_batch, k[1], k[2])]

NextConcurrent == Produce \/ FlushSwap \/ FlushProcess

SpecConcurrent == InitConcurrent /\ [][NextConcurrent]_vars

----------------------------------------------------------------------------
(* The reduction of one field's readings: each run feeds one field of one   *)
(* device, with at most MaxInterval readings held at a time                 *)

MaxInterval == 3

ReduceFields == {"temperature", "RSSI", "Wind_Dir", "WIND_DIR_DEG", "battery_ok"}

ReduceValuesOf(field) ==
    CASE field = "temperature" -> {IntV(20), IntV(22), FloatV(2150), StrV("junk")}
      [] field = "RSSI" -> {IntV(3), FloatV(300), FloatV(250), StrV("junk")}
      [] field = "Wind_Dir" -> {IntV(350), IntV(10), FloatV(1000), StrV("junk")}
      [] field = "WIND_DIR_DEG" -> {IntV(350), IntV(10)}
      [] OTHER -> {IntV(1), IntV(0)}

InitReduce ==
    /\ InitHandler
    /\ plan \in [field : ReduceFields]
    /\ config \in [BATTERY_OK_CLEAR_AFTER : {0}, gas_unit : {"ft3"},
                   RTL_THROTTLE_INTERVAL : {1}]
    /\ field_meta_table = "classed"

\* the buffered branch of dispatch_reading, called for the field of the run
ProduceField ==
    \E value \in ReduceValuesOf(plan.field) :
        /\ Buffered(buffer) + Buffered(current_batch) < MaxInterval
        /\ buffer' = BufferAppend(buffer, <<"D", ":", "1">>, plan.field, value,
                                  DeviceNameOf("d1"), DeviceModelOf("d1"),
                                  "RTL_101", "433.92M")
        /\ pubs' = <<>>
        /\ calls' = <<>>
        /\ arrived' = [id |-> "d1", field |-> plan.field, value |-> value]
        /\ reduced' = EmptyMap
        /\ UNCHANGED <<now, config, field_meta_table, side_vars, failed, raised, flusher_alive,
                       discovery_published,
                       last_sent_values, tracked_devices, migration_cleared,
                       battery_state, commodity_by_device, device_model_by_id,
                       utility_last_raw, discovery_sig, last_flush, broker, hist,
                       nuke_vars, current_batch, plan, accepted>>

SwapField == SwapBuffers /\ reduced' = EmptyMap /\ UNCHANGED accepted

\* ProcessBatch, with the record of the interval's values it has just reduced
ReduceBatch ==
    /\ ProcessBatch
    /\ reduced' = [k \in KeysOf(current_batch) |->
                      ValuesOfKey(current_batch, k[1], k[2])]

NextReduce == ProduceField \/ SwapField \/ ReduceBatch

SpecReduce == InitReduce /\ [][NextReduce]_vars

----------------------------------------------------------------------------
(* The scan among the entities of the bridge, its buttons and the configs   *)
(* of other publishers                                                      *)

MaxScanTime == 5

\* _on_connect with rc == 0: availability and the three buttons
OnConnect ==
    /\ pubs' = RestoredMsgs
    /\ broker' = RetainAll(broker, RestoredMsgs)
    /\ calls' = <<>>
    /\ UNCHANGED <<now, config, field_meta_table, side_vars, failed, raised, flusher_alive,
                   discovery_published, last_sent_values, tracked_devices,
                   migration_cleared, battery_state, commodity_by_device,
                   device_model_by_id, utility_last_raw, discovery_sig, buffer,
                   last_flush, hist, nuke_vars, current_batch>>

\* a retained discovery config of another publisher
OtherTopic == "homeassistant/sensor/other_1/config"
OtherConfig(manufacturer) ==
    ConfigMsg(OtherTopic, [unique_id |-> "other_1",
                           device |-> [manufacturer |-> manufacturer, model |-> "other"]])

OtherPublishes ==
    \E manufacturer \in Manufacturers \ {"rtl-haos"} :
        /\ broker' = Retain(broker, OtherConfig(manufacturer))
        /\ pubs' = <<>>
        /\ calls' = <<>>
        /\ UNCHANGED <<now, config, field_meta_table, side_vars, failed, raised,
                       flusher_alive, discovery_published, last_sent_values,
                       tracked_devices, migration_cleared, battery_state,
                       commodity_by_device, device_model_by_id, utility_last_raw,
                       discovery_sig, buffer, last_flush, hist, nuke_vars, current_batch>>

ScanFields == {"temperature", "capture_status"}
ScanValueOf(field) == IF field = "temperature" THEN IntV(20) ELSE StrV("idle")

\* the readings are sent with is_rtl=False: nothing but a change publishes
SendScanReading ==
    \E field \in ScanFields :
        /\ SendSensorCall(<<"D", ":", "1">>, field, ScanValueOf(field), FALSE)
        /\ UNCHANGED <<plan, observers>>

ConnectScan == OnConnect /\ UNCHANGED <<plan, observers>>
OtherScan == OtherPublishes /\ UNCHANGED <<plan, observers>>
PressScan == NukePress /\ UNCHANGED <<plan, observers, presses>>
ReceiveScan == NukeScanMessage /\ UNCHANGED <<plan, observers>>
EndScan == StopNukeScan /\ UNCHANGED <<plan, observers>>
TickScan == TickTo(MaxScanTime)

NextScan ==
    SendScanReading \/ ConnectScan \/ OtherScan \/ PressScan \/ ReceiveScan
    \/ EndScan \/ TickScan

SpecScan == InitNuke /\ [][NextScan]_vars

----------------------------------------------------------------------------
(* Presses of the nuke button over time, with the record of when they came  *)

MaxPressTime == 7

\* the last NUKE_THRESHOLD presses: when each came and whether it started
\* the scan (nuke_all armed its timer)
Pressed(seq, at, started) ==
    LET all == Append(seq, [at |-> at, started |-> started])
    IN IF Len(all) > NUKE_THRESHOLD THEN Tail(all) ELSE all

PressCounted ==
    /\ NukePress
    /\ presses' = Pressed(presses, now, Len(nuke_timers') > Len(nuke_timers))
    /\ UNCHANGED <<plan, observers>>

StopPress == StopNukeScan /\ UNCHANGED <<plan, observers>>
TickPress == TickTo(MaxPressTime)

NextPress == PressCounted \/ StopPress \/ TickPress

SpecPress == InitNuke /\ [][NextPress]_vars

----------------------------------------------------------------------------
(* Two producer threads inside send_sensor with battery_ok readings of one  *)
(* device, throttling disabled: dispatch_reading calls send_sensor on the   *)
(* thread of the radio that heard the device.  A thread's call is split at  *)
(* the statements of the migration block, which no lock covers as a whole.  *)

MigrateId == "d1"
MigrateUid == UniqueIdV2(MigrateId, "battery_ok")
MigrateValues == {IntV(0), IntV(1), StrV("junk")}

\* where a thread is inside send_sensor, with the value it goes on to publish
\* and the deletes it has published so far (observer)
InCall(pc, out_value, deletes) == [pc |-> pc, out_value |-> out_value, deletes |-> deletes]
DeletesOf(t) == IF threads[t].pc = "idle" /\ "deletes" \notin DOMAIN threads[t]
                THEN 0 ELSE threads[t].deletes
IdleAfter(t) == [pc |-> "idle", out_value |-> NoneV, deletes |-> DeletesOf(t)]
IsIdle(t) == threads[t].pc = "idle"

\* the call's record when the thread resumes after the migration block
Resumed(t) ==
    [H |-> Handler, base |-> 0, rejected |-> FALSE, out_value |-> threads[t].out_value,
     meta_override |-> NoMeta, published |-> FALSE, prev_sig |-> NoSig, sig |-> NoSig,
     prev_value |-> NoneV]

ThreadUnchanged ==
    UNCHANGED <<now, config, field_meta_table, buffer, last_flush, nuke_vars,
                current_batch, flusher_alive, presses, capture_vars, startup_vars, details_vars, shutdown_vars,
                plan, observers>>

\* the thread enters send_sensor, runs it up to the migration block and
\* evaluates `unique_id_v2 not in self.migration_cleared'
EnterSendSensor(t) ==
    \E value \in MigrateValues :
        /\ IsIdle(t)
        /\ \E c \in {TransformValue(
                        LearnCommodity(
                            RecordReading(Handler, MigrateId, "battery_ok", value,
                                DeviceNameOf(MigrateId), DeviceModelOf(MigrateId)),
                            MigrateId, "battery_ok", value, DeviceNameOf(MigrateId),
                            DeviceModelOf(MigrateId)),
                        MigrateId, "battery_ok", value, DeviceModelOf(MigrateId))} :
              /\ HandlerBecomes(c.H)
              /\ threads' = [threads EXCEPT ![t] =
                    IF c.rejected THEN IdleAfter(t)
                    ELSE InCall(IF MigrateUid \notin migration_cleared
                                THEN "publish" ELSE "discover",
                                c.out_value, DeletesOf(t))]
        /\ ThreadUnchanged

\* self.client.publish(old_sensor_config, "", retain=True)
MigratePublish(t) ==
    /\ threads[t].pc = "publish"
    /\ HandlerBecomes(Publish(Handler, MigrationDelete(MigrateUid)))
    /\ threads' = [threads EXCEPT ![t].pc = "discard", ![t].deletes = @ + 1]
    /\ ThreadUnchanged

\* with self.discovery_lock: self.discovery_published.discard(unique_id_v2)
MigrateDiscard(t) ==
    /\ threads[t].pc = "discard"
    /\ HandlerBecomes(MigrationDiscard(Handler, MigrateUid))
    /\ threads' = [threads EXCEPT ![t].pc = "add"]
    /\ ThreadUnchanged

\* self.migration_cleared.add(unique_id_v2)
MigrateAdd(t) ==
    /\ threads[t].pc = "add"
    /\ HandlerBecomes(MigrationAdd(Handler, MigrateUid))
    /\ threads' = [threads EXCEPT ![t].pc = "discover"]
    /\ ThreadUnchanged

\* the rest of the call: _publish_discovery and the state publish
LeaveSendSensor(t) ==
    /\ threads[t].pc = "discover"
    /\ HandlerBecomes(
          FinishCall(
              PublishState(
                  DiscoverEntity(Resumed(t), MigrateId, "battery_ok",
                                 DeviceNameOf(MigrateId), DeviceModelOf(MigrateId), NoText),
                  MigrateId, "battery_ok", TRUE),
              MigrateId, "battery_ok", threads[t].out_value, TRUE, FALSE))
    /\ threads' = [threads EXCEPT ![t] = IdleAfter(t)]
    /\ ThreadUnchanged

InitMigrate ==
    /\ InitHandler
    /\ plan = NoPlan
    /\ config \in [BATTERY_OK_CLEAR_AFTER : {0}, gas_unit : {"ft3"},
                   RTL_THROTTLE_INTERVAL : {0}]
    /\ field_meta_table = "classed"

Enter == \E t \in Producers : EnterSendSensor(t)
PublishDelete == \E t \in Producers : MigratePublish(t)
Discard == \E t \in Producers : MigrateDiscard(t)
AddCleared == \E t \in Producers : MigrateAdd(t)
Leave == \E t \in Producers : LeaveSendSensor(t)

NextMigrate == Enter \/ PublishDelete \/ Discard \/ AddCleared \/ Leave

SpecMigrate == InitMigrate /\ [][NextMigrate]_vars

----------------------------------------------------------------------------
(* Flushes of two devices whose publishes can fail: client.publish returns   *)
(* an error code, or raises                                                  *)

MaxFaultTime == 2
MaxFaultAt == 4

\* the outcomes of the publishes of one step: one failure at the k-th
\* publish, or none
RECURSIVE OkThen(_, _)
OkThen(k, outcome) == IF k <= 1 THEN <<outcome>> ELSE <<"ok">> \o OkThen(k - 1, outcome)
FaultPlans ==
    {<<>>} \cup {OkThen(k, outcome) : k \in 1..MaxFaultAt, outcome \in {"error", "raise"}}

InitFaults ==
    /\ InitHandler
    /\ plan = NoPlan
    /\ config \in [BATTERY_OK_CLEAR_AFTER : {0}, gas_unit : {"ft3"},
                   RTL_THROTTLE_INTERVAL : {1}]
    /\ field_meta_table = "classed"

DispatchFaulty ==
    \E id \in RawIds :
        /\ DispatchReading(id, "temperature", IntV(20), "RTL_101", "433.92M")
        /\ UNCHANGED <<plan, observers>>

FlushFaulty ==
    \E faults \in FaultPlans :
        /\ buffer # <<>>
        /\ FlushWith(faults)
        /\ UNCHANGED <<plan, observers>>

\* a reading that does not come from the radio, sent without the throttle
SendFaulty ==
    \E faults \in FaultPlans :
        /\ SendWith(faults, <<"e", "2">>, "temperature", IntV(21), FALSE)
        /\ UNCHANGED <<plan, observers>>

TickFaults == TickTo(MaxFaultTime)

NextFaults == DispatchFaulty \/ FlushFaulty \/ SendFaulty \/ TickFaults

SpecFaults == InitFaults /\ [][NextFaults]_vars

----------------------------------------------------------------------------
(* Startup: the detected dongles, the renaming of duplicate USB serials and *)
(* the hardware map from id to index                                        *)

MaxDevices == 3

\* the serials the dongles report; a serial is free text of the EEPROM
Serials == {"00000001", "00000001-1", "00000001-2", "A", "B"}

\* what discover_rtl_devices returns: the dongles in the order of their index
DetectedLists ==
    UNION {[1..n -> Serials] : n \in 1..MaxDevices}
\* with usb_serial as d.setdefault("usb_serial", ...) fills it in
Detected(serials) ==
    [i \in 1..Len(serials) |->
        [id |-> serials[i], index |-> i - 1, usb_serial |-> serials[i]]]

\* f"{usb}-{d.get('index')}"
RenamedId(usb, index) == usb \o "-" \o ToString(index)

RECURSIVE RenameDuplicates(_, _)
\* the loop over detected_devices with _seen_usb
RenameDuplicates(devices, seen_usb) ==
    IF devices = <<>> THEN <<>>
    ELSE <<[Head(devices) EXCEPT
               !.id = IF Head(devices).usb_serial \in seen_usb
                      THEN RenamedId(Head(devices).usb_serial, Head(devices).index)
                      ELSE Head(devices).usb_serial]>>
         \o RenameDuplicates(Tail(devices), seen_usb \cup {Head(devices).usb_serial})

RECURSIVE HardwareMap(_, _)
\* serial_to_index[str(d['id'])] = d['index'] for each device in turn
HardwareMap(devices, map) ==
    IF devices = <<>> THEN map
    ELSE HardwareMap(Tail(devices), Put(map, Head(devices).id, Head(devices).index))

\* what the startup leaves alone
StartupUnchanged ==
    UNCHANGED <<now, config, field_meta_table, discovery_published, last_sent_values,
                tracked_devices, migration_cleared, battery_state, commodity_by_device,
                device_model_by_id, utility_last_raw, discovery_sig, buffer, last_flush,
                broker, pubs, calls, hist, nuke_vars, current_batch, failed, raised,
                flusher_alive, threads, presses, capture_vars, details_vars, shutdown_vars, plan,
                observers>>

\* main() from discover_rtl_devices to the hardware map
Startup(serials) ==
    /\ detected_devices = <<>>
    /\ detected_devices' = RenameDuplicates(Detected(serials), {})
    /\ serial_to_index' = HardwareMap(detected_devices', EmptyMap)
    /\ radios' = radios
    /\ StartupUnchanged

InitStartup ==
    /\ InitHandler
    /\ plan = NoPlan
    /\ config \in [BATTERY_OK_CLEAR_AFTER : {0}, gas_unit : {"ft3"},
                   RTL_THROTTLE_INTERVAL : {0}]
    /\ field_meta_table = "classed"

StartMain == \E serials \in DetectedLists : Startup(serials)

NextStartup == StartMain

SpecStartup == InitStartup /\ [][NextStartup]_vars

----------------------------------------------------------------------------
(* The locks.  Each operation is the sequence of its lock acquisitions,     *)
(* lock releases and accesses to shared caches, in the order of the code;   *)
(* two threads run operations at any interleaving.  A thread that reaches   *)
(* an acquisition waits until no thread holds the lock (threading.Lock is   *)
(* not reentrant).                                                          *)

Locks == {"buffer", "discovery", "details", "protocols", "capture"}

Acq(lock) == <<"acquire", lock>>
Rel(lock) == <<"release", lock>>
Rd(cache) == <<"read", cache>>
Wr(cache) == <<"write", cache>>

\* _publish_discovery: the whole body is inside `with self.discovery_lock'
PublishDiscoveryEvents ==
    <<Acq("discovery"), Rd("discovery_sig"), Wr("discovery_published"),
      Wr("discovery_sig"), Rel("discovery")>>

\* the end of send_sensor: the value comparison and the store after the
\* state publish
PublishStateEvents == <<Rd("last_sent_values"), Wr("last_sent_values")>>

\* the start of send_sensor, up to prev_commodity
RecordReadingEvents ==
    <<Wr("tracked_devices"), Wr("device_model_by_id")>>

\* send_sensor of a utility total: the raw value, the commodity for
\* prev_commodity, for the meta override and for the normalisation
UtilityEvents ==
    RecordReadingEvents
        \o <<Wr("utility_last_raw"), Rd("commodity_by_device"), Rd("commodity_by_device"),
             Rd("device_model_by_id"), Rd("commodity_by_device")>>
        \o PublishDiscoveryEvents \o PublishStateEvents

\* send_sensor of a commodity hint that changes the commodity, with the
\* refresh of one cached total
HintEvents ==
    RecordReadingEvents
        \o <<Rd("commodity_by_device"), Wr("commodity_by_device"), Rd("utility_last_raw")>>
        \o UtilityEvents
        \o PublishDiscoveryEvents \o PublishStateEvents

\* send_sensor of the first battery_ok reading of a device
BatteryEvents ==
    RecordReadingEvents
        \o <<Rd("commodity_by_device"), Rd("battery_state"), Wr("battery_state"),
             Rd("migration_cleared"), Acq("discovery"), Wr("discovery_published"),
             Rel("discovery"), Wr("migration_cleared")>>
        \o PublishDiscoveryEvents \o PublishStateEvents

\* send_sensor of any other field
PlainEvents ==
    RecordReadingEvents \o <<Rd("commodity_by_device")>>
        \o PublishDiscoveryEvents \o PublishStateEvents

\* _publish_details_entity when the signature differs
PublishDetailsEntityEvents ==
    <<Rd("discovery_sig"), Acq("discovery"), Wr("discovery_published"), Rel("discovery"),
      Wr("discovery_sig")>>

\* a variant that publishes the Details entity before it releases the lock
UpdateDetailsEventsPublishingInside ==
    <<Wr("tracked_devices"), Acq("details"), Rd("details_cache"), Wr("details_cache")>>
        \o PublishDetailsEntityEvents \o <<Rel("details")>>

\* update_details when the interval has passed
UpdateDetailsEvents ==
    <<Wr("tracked_devices"), Acq("details"), Rd("details_cache"), Wr("details_cache"),
      Rel("details")>>
        \o PublishDetailsEntityEvents

StopNukeScanEvents ==
    <<Acq("discovery"), Wr("discovery_published"), Wr("last_sent_values"),
      Wr("tracked_devices"), Wr("discovery_sig"), Rel("discovery")>>

\* the buffered branch of dispatch_reading
DispatchEvents == <<Acq("buffer"), Rd("buffer"), Wr("buffer"), Rel("buffer")>>

\* one round of start_throttle_loop with one value to publish
FlushEvents ==
    <<Acq("buffer"), Rd("buffer"), Wr("buffer"), Rel("buffer")>> \o PlainEvents

ObserveProtocolEvents == <<Acq("protocols"), Wr("protocols_seen"), Rel("protocols")>>
GetProtocolsEvents == <<Acq("protocols"), Rd("protocols_seen"), Rel("protocols")>>

\* start_capture, stop_capture and capture_line: one block each
CaptureEvents == <<Acq("capture"), Rd("capture"), Wr("capture"), Rel("capture")>>
GetCaptureStatusEvents == <<Acq("capture"), Rd("capture"), Rel("capture")>>

\* the operations a thread can be running, by who runs them: the producers
\* (rtl_loop), the flush thread, the timers and the message callback
EventsOf(op) ==
    CASE op = "send_sensor utility" -> UtilityEvents
      [] op = "send_sensor hint" -> HintEvents
      [] op = "send_sensor battery_ok" -> BatteryEvents
      [] op = "send_sensor" -> PlainEvents
      [] op = "update_details" -> UpdateDetailsEvents
      [] op = "_stop_nuke_scan" -> StopNukeScanEvents
      [] op = "dispatch_reading" -> DispatchEvents
      [] op = "start_throttle_loop" -> FlushEvents
      [] op = "observe_protocol" -> ObserveProtocolEvents
      [] op = "get_protocols_seen" -> GetProtocolsEvents
      [] op = "capture" -> CaptureEvents
      [] op = "get_capture_status" -> GetCaptureStatusEvents
Operations ==
    {"send_sensor utility", "send_sensor hint", "send_sensor battery_ok", "send_sensor",
     "update_details", "_stop_nuke_scan", "dispatch_reading", "start_throttle_loop",
     "observe_protocol", "get_protocols_seen", "capture", "get_capture_status"}

Running(op, todo, held, last) ==
    [pc |-> "run", op |-> op, todo |-> todo, held |-> held, last |-> last]
IsRunning(t) == threads[t].pc = "run"
HeldBy(t) == IF IsRunning(t) THEN threads[t].held ELSE {}
\* the thread's next event is of this kind
NextIs(t, kind) ==
    IsRunning(t) /\ threads[t].todo # <<>> /\ Head(threads[t].todo)[1] = kind
Advance(t, held) ==
    threads' = [threads EXCEPT ![t] = Running(threads[t].op, Tail(threads[t].todo), held,
                                               Head(threads[t].todo))]

\* what the steps of the lock model leave alone
LocksUnchanged ==
    UNCHANGED <<now, config, field_meta_table, discovery_published, last_sent_values,
                tracked_devices, migration_cleared, battery_state, commodity_by_device,
                device_model_by_id, utility_last_raw, discovery_sig, buffer, last_flush,
                broker, pubs, calls, hist, nuke_vars, current_batch, failed, raised,
                flusher_alive, presses, capture_vars, startup_vars, details_vars, shutdown_vars, plan, observers>>

CallOperation(t) ==
    /\ threads[t].pc = "idle"
    /\ \E op \in Operations :
          threads' = [threads EXCEPT ![t] = Running(op, EventsOf(op), {}, <<"call", op>>)]
    /\ LocksUnchanged

\* `with lock:' enters when no thread holds the lock
AcquireLock(t) ==
    /\ NextIs(t, "acquire")
    /\ \A u \in Producers : Head(threads[t].todo)[2] \notin HeldBy(u)
    /\ Advance(t, threads[t].held \cup {Head(threads[t].todo)[2]})
    /\ LocksUnchanged

ReleaseLock(t) ==
    /\ NextIs(t, "release")
    /\ Advance(t, threads[t].held \ {Head(threads[t].todo)[2]})
    /\ LocksUnchanged

AccessCache(t) ==
    /\ NextIs(t, "read") \/ NextIs(t, "write")
    /\ Advance(t, threads[t].held)
    /\ LocksUnchanged

ReturnFromOperation(t) ==
    /\ IsRunning(t)
    /\ threads[t].todo = <<>>
    /\ threads' = [threads EXCEPT ![t] = Idle]
    /\ LocksUnchanged

InitLocks ==
    /\ InitHandler
    /\ plan = NoPlan
    /\ config \in [BATTERY_OK_CLEAR_AFTER : {0}, gas_unit : {"ft3"},
                   RTL_THROTTLE_INTERVAL : {1}]
    /\ field_meta_table = "classed"

CallOp == \E t \in Producers : CallOperation(t)
Acquire == \E t \in Producers : AcquireLock(t)
Release == \E t \in Producers : ReleaseLock(t)
Access == \E t \in Producers : AccessCache(t)
Return == \E t \in Producers : ReturnFromOperation(t)

NextLocks == CallOp \/ Acquire \/ Release \/ Access \/ Return

SpecLocks == InitLocks /\ [][NextLocks]_vars

----------------------------------------------------------------------------
(* The Details sensor of a device: update_details merges the attributes of   *)
(* a reading into the device's entry, caps the keys and publishes the entry *)
(* on an interval                                                            *)

MaxDetailsTime == 1
MaxKeysCap == 5

DETAILS_MAX_KEYS_DEFAULT == 40
DETAILS_PUBLISH_INTERVAL_DEFAULT == 30

\* the keys the model feeds in and the core keys, as sorted() orders them
DetailKeyOrder == <<"battery", "channel", "device", "last_seen", "model", "rssi">>
CoreKeys == {"last_seen", "model", "device"}
OtherKeys == {"battery", "channel", "rssi"}
KeyPosition(k) == CHOOSE i \in 1..Len(DetailKeyOrder) : DetailKeyOrder[i] = k

\* sorted(a.keys())
SortedKeys(a) == SelectSeq(DetailKeyOrder, LAMBDA k : k \in DOMAIN a)

\* int(getattr(config, NAME, dflt) or dflt)
OrDefault(value, dflt) == IF value = 0 THEN dflt ELSE value
MaxKeys == OrDefault(config.DETAILS_MAX_KEYS, DETAILS_MAX_KEYS_DEFAULT)
DetailsInterval == OrDefault(config.DETAILS_PUBLISH_INTERVAL, DETAILS_PUBLISH_INTERVAL_DEFAULT)

\* time.time(), which is positive
DetailsClock == now + 1

\* the first n elements of a sequence
FirstN(seq, n) == IF n >= Len(seq) THEN seq ELSE SubSeq(seq, 1, n)
SetOf(seq) == {seq[i] : i \in 1..Len(seq)}

\* a variant that fills the remaining capacity from the end of the order
CapKeysFromTheEnd(a, max_keys, include_keys) ==
    IF max_keys > 0 /\ Cardinality(DOMAIN a) > max_keys
    THEN LET kept == {k \in DOMAIN a : k \in CoreKeys \cup include_keys}
             remaining_keys == SelectSeq(SortedKeys(a), LAMBDA k : k \notin kept)
             room == IF max_keys > Cardinality(kept) THEN max_keys - Cardinality(kept) ELSE 0
             skip == IF Len(remaining_keys) > room THEN Len(remaining_keys) - room ELSE 0
         IN [k \in kept \cup SetOf(SubSeq(remaining_keys, skip + 1, Len(remaining_keys)))
                |-> a[k]]
    ELSE a

\* the max key constraint: the core keys and the include keys that are
\* present, then the others in sorted order while len(kept) < max_keys
CapKeys(a, max_keys, include_keys) ==
    IF max_keys > 0 /\ Cardinality(DOMAIN a) > max_keys
    THEN LET kept == {k \in DOMAIN a : k \in CoreKeys \cup include_keys}
             remaining_keys == SelectSeq(SortedKeys(a), LAMBDA k : k \notin kept)
             room == IF max_keys > Cardinality(kept) THEN max_keys - Cardinality(kept) ELSE 0
         IN [k \in kept \cup SetOf(FirstN(remaining_keys, room)) |-> a[k]]
    ELSE a

\* the merge of attrs into the entry's attributes, with the three keys that
\* are always set
MergedAttrs(old, attrs, device_name, device_model) ==
    [k \in DOMAIN old \cup DOMAIN attrs \cup CoreKeys |->
        CASE k = "last_seen" -> IntV(DetailsClock)
          [] k = "model" -> StrV(device_model)
          [] k = "device" -> StrV(device_name)
          [] k \in DOMAIN attrs -> attrs[k]
          [] OTHER -> old[k]]

NewDetailsEntry == [attrs |-> EmptyMap, last_publish |-> 0, last_seen |-> 0]

DetailsUid(clean_id) == clean_id \o "_details" \o ID_SUFFIX
DetailsStateTopic(clean_id) == "home/rtl_devices/" \o clean_id \o "/details"
DetailsAttrTopic(clean_id) == "home/rtl_devices/" \o clean_id \o "/details_attr"
DetailsPayload(clean_id, device_name, device_model) ==
    [name |-> "Details", state_topic |-> DetailsStateTopic(clean_id),
     json_attributes_topic |-> DetailsAttrTopic(clean_id),
     unique_id |-> DetailsUid(clean_id), icon |-> "mdi:information-outline",
     entity_category |-> "diagnostic",
     device |-> [identifiers |-> "rtl433_" \o device_model \o "_" \o clean_id,
                 manufacturer |-> "rtl-haos", model |-> device_model, name |-> device_name,
                 via_device |-> device_model # BRIDGE_NAME],
     expire_after |-> RTL_EXPIRE_AFTER]
DetailsSignature(payload) ==
    <<"sensor", payload.icon, payload.name, payload.json_attributes_topic,
      payload.device.identifiers, payload.device.via_device>>
AttrsMsg(topic, attrs) == [topic |-> topic, kind |-> "attrs", text |-> "json", cfg |-> attrs]

\* a publish that is reached unless an earlier one raised
ThenPublish(P, msg) == IF P.raised THEN P ELSE Publish(P, msg)

\* the config of the Details entity, when its signature differs
PublishDetailsConfig(H, clean_id, payload) ==
    IF Get(H.discovery_sig, DetailsUid(clean_id), NoSig) = DetailsSignature(payload)
    THEN H
    ELSE StoreDiscovery(
             Publish(H, ConfigMsg(ConfigTopic("sensor", DetailsUid(clean_id)), payload)),
             DetailsUid(clean_id), DetailsSignature(payload))

publish_details_entity(H, clean_id, device_name, device_model, attrs) ==
    ThenPublish(
        ThenPublish(
            PublishDetailsConfig(H, clean_id,
                                 DetailsPayload(clean_id, device_name, device_model)),
            AttrsMsg(DetailsAttrTopic(clean_id), attrs)),
        TextMsg(DetailsStateTopic(clean_id), "ok"))

\* the entry of the device after the merge and the cap
DetailsEntryAfter(entry, attrs, device_name, device_model) ==
    [attrs |-> CapKeys(MergedAttrs(entry.attrs, attrs, device_name, device_model),
                       MaxKeys, config.DETAILS_INCLUDE_KEYS),
     last_seen |-> DetailsClock,
     last_publish |->
         IF entry.last_publish = 0 \/ DetailsClock - entry.last_publish >= DetailsInterval
         THEN DetailsClock ELSE entry.last_publish]

\* update_details(clean_id, device_name, device_model, attrs)
update_details(clean_id, attrs) ==
    /\ config.DETAILS_ENABLED
    /\ details_cache' =
           Put(details_cache, clean_id,
               DetailsEntryAfter(Get(details_cache, clean_id, NewDetailsEntry), attrs,
                                 DeviceNameOf(clean_id), DeviceModelOf(clean_id)))
    /\ HandlerBecomes(
          IF details_cache'[clean_id].last_publish = DetailsClock
          THEN publish_details_entity(
                   [Handler EXCEPT !.tracked_devices = @ \cup {clean_id}], clean_id,
                   DeviceNameOf(clean_id), DeviceModelOf(clean_id),
                   details_cache'[clean_id].attrs)
          ELSE [Handler EXCEPT !.tracked_devices = @ \cup {clean_id}])
    /\ arrived' = [id |-> clean_id, field |-> "details", value |-> NoneV, attrs |-> attrs]
    /\ UNCHANGED <<now, config, field_meta_table, buffer, last_flush, nuke_vars,
                   current_batch, flusher_alive, threads, presses, capture_vars,
                   startup_vars, shutdown_vars, plan, accepted, reduced>>

\* the attributes of a reading: some of the keys, with one of two values
DetailInputs ==
    UNION {[keys -> {IntV(1), IntV(2)}] : keys \in SUBSET OtherKeys}

InitDetails ==
    /\ InitHandler
    /\ plan = NoPlan
    /\ config \in [BATTERY_OK_CLEAR_AFTER : {0}, gas_unit : {"ft3"},
                   RTL_THROTTLE_INTERVAL : {0}, DETAILS_ENABLED : {TRUE},
                   DETAILS_MAX_KEYS : -1..MaxKeysCap,
                   DETAILS_PUBLISH_INTERVAL : {1},
                   DETAILS_INCLUDE_KEYS : {{}, {"rssi"}}]
    /\ field_meta_table = "classed"

UpdateDetails == \E attrs \in DetailInputs : update_details("d1", attrs)

TickDetails == TickTo(MaxDetailsTime)

NextDetails == UpdateDetails \/ TickDetails

SpecDetails == InitDetails /\ [][NextDetails]_vars

----------------------------------------------------------------------------
(* Shutdown.  On KeyboardInterrupt main() calls mqtt_handler.stop(), which   *)
(* publishes the offline marker, stops the network loop and disconnects;    *)
(* then main() returns and the daemon threads end with the process.  The    *)
(* rtl_loop threads and the flush thread are not told to stop.              *)

MaxShutdownTime == 2

\* the first statement of stop(): the retained offline marker
stop_publish ==
    /\ stop_pc = "running"
    /\ HandlerBecomes(Publish(Handler, TextMsg(TOPIC_AVAILABILITY, "offline")))
    /\ stop_pc' = "offline"
    /\ UNCHANGED <<now, config, field_meta_table, buffer, last_flush, nuke_vars,
                   current_batch, flusher_alive, threads, presses, capture_vars,
                   startup_vars, details_vars, plan, observers>>

\* loop_stop(), disconnect() and the return of main()
stop_disconnect ==
    /\ stop_pc = "offline"
    /\ stop_pc' = "exited"
    /\ pubs' = <<>>
    /\ calls' = <<>>
    /\ UNCHANGED <<now, config, field_meta_table, failed, raised, flusher_alive,
                   discovery_published, last_sent_values, tracked_devices,
                   migration_cleared, battery_state, commodity_by_device,
                   device_model_by_id, utility_last_raw, discovery_sig, buffer,
                   last_flush, broker, hist, nuke_vars, current_batch, threads, presses,
                   capture_vars, startup_vars, details_vars, plan, observers>>

InitShutdown ==
    /\ InitHandler
    /\ plan = NoPlan
    /\ config \in [BATTERY_OK_CLEAR_AFTER : {0}, gas_unit : {"ft3"},
                   RTL_THROTTLE_INTERVAL : {0, 1}]
    /\ field_meta_table = "classed"

\* an rtl_loop thread hands a reading over, as long as the process lives
DispatchUntilExit ==
    \E id \in RawIds, value \in {IntV(20), IntV(21)} :
        /\ stop_pc # "exited"
        /\ DispatchReading(id, "temperature", value, "RTL_101", "433.92M")
        /\ UNCHANGED <<plan, observers>>

\* the flush thread, as long as the process lives
FlushUntilExit ==
    /\ stop_pc # "exited"
    /\ buffer # <<>>
    /\ Flush
    /\ UNCHANGED <<plan, observers>>

TickShutdown == stop_pc # "exited" /\ TickTo(MaxShutdownTime)

NextShutdown ==
    DispatchUntilExit \/ FlushUntilExit \/ stop_publish \/ stop_disconnect \/ TickShutdown

SpecShutdown == InitShutdown /\ [][NextShutdown]_vars

----------------------------------------------------------------------------
(* The radios main() starts when no rtl_config is given.  Frequency lists   *)
(* are sequences of frequencies; the country of the Home Assistant          *)
(* installation is unknown.                                                  *)

MaxDongles == 4
MaxRadiosCfg == 4

\* the dongles discover_rtl_devices finds, by their serials
DongleLists == UNION {[1..n -> {"00000001", "A"}] : n \in 0..MaxDongles}

Smaller(a, b) == IF a <= b THEN a ELSE b

\* max_radios: rtl_auto_max_radios, or the hard cap when it is 0
MaxRadios(n, cfg) ==
    IF cfg.RTL_AUTO_MAX_RADIOS <= 0
    THEN Smaller(n, IF cfg.RTL_AUTO_HARD_CAP < 1 THEN 1 ELSE cfg.RTL_AUTO_HARD_CAP)
    ELSE Smaller(cfg.RTL_AUTO_MAX_RADIOS, n)

\* utils.choose_secondary_band_defaults with no country and no override
choose_secondary_band_defaults(band_plan) ==
    CASE band_plan = "auto" -> <<"868M", "915M">>
      [] band_plan = "eu" -> <<"868M">>
      [] band_plan = "us" -> <<"915M">>

\* utils.choose_hopper_band_defaults with no country
choose_hopper_band_defaults(used) ==
    SelectSeq(<<"315M", "345M", "390M", "868M">>, LAMBDA f : f \notin used)

PrimaryFreqs == <<"433.92M">>

split_secondary(max_radios, n, sec_list, priority) ==
    /\ max_radios >= 3
    /\ n >= 3
    /\ Len(sec_list) >= 2
    /\ priority \in {"primary", "secondary"}

plan_tokens(split, priority) ==
    IF split
    THEN IF priority = "secondary"
         THEN <<"secondary", "secondary_split", "primary">>
         ELSE <<"primary", "secondary", "secondary_split">>
    ELSE CASE priority = "secondary" -> <<"secondary", "primary", "hopper">>
           [] priority = "hopper" -> <<"hopper", "primary", "secondary">>
           [] OTHER -> <<"primary", "secondary", "hopper">>

\* the frequencies of secondary_cfg and of secondary_split_cfg (<<>>: None)
SecondaryFreqs(split, sec_list) == IF split THEN <<sec_list[1]>> ELSE sec_list
SecondarySplitFreqs(split, sec_list) == IF split THEN <<sec_list[2]>> ELSE <<>>

\* the frequencies the other started roles cover
UsedFreqs(tokens, split, sec_list) ==
    UNION {CASE tokens[i] = "primary" -> SetOf(PrimaryFreqs)
             [] tokens[i] = "secondary" -> SetOf(SecondaryFreqs(split, sec_list))
             [] tokens[i] = "secondary_split" -> SetOf(SecondarySplitFreqs(split, sec_list))
             [] OTHER -> {} : i \in 1..Len(tokens)}

\* hopper_freq before the filter: the override, the defaults, or the other
\* high band
HopperFreq(override, priority, used, sec_list) ==
    IF override # <<>> THEN override
    ELSE IF priority = "hopper" /\ choose_hopper_band_defaults(used) # <<>>
         THEN choose_hopper_band_defaults(used)
         ELSE IF sec_list[1] = "868M" THEN <<"915M">>
              ELSE IF sec_list[1] = "915M" THEN <<"868M">> ELSE <<"915M">>

\* the frequencies of hopper_cfg (<<>>: None)
HopperFreqs(tokens, override, priority, split, sec_list) ==
    IF "hopper" \notin SetOf(tokens) THEN <<>>
    ELSE IF SelectSeq(HopperFreq(override, priority, UsedFreqs(tokens, split, sec_list), sec_list),
                      LAMBDA f : f \notin UsedFreqs(tokens, split, sec_list)) # <<>>
         THEN SelectSeq(HopperFreq(override, priority, UsedFreqs(tokens, split, sec_list), sec_list),
                        LAMBDA f : f \notin UsedFreqs(tokens, split, sec_list))
         ELSE IF tokens[1] = "hopper"
              THEN HopperFreq(override, priority, UsedFreqs(tokens, split, sec_list), sec_list)
              ELSE <<>>

\* role_map.get(token): the frequencies of the role's config (<<>>: None)
role_map(token, tokens, override, priority, split, sec_list) ==
    CASE token = "primary" -> PrimaryFreqs
      [] token = "secondary" -> SecondaryFreqs(split, sec_list)
      [] token = "secondary_split" -> SecondarySplitFreqs(split, sec_list)
      [] token = "hopper" -> HopperFreqs(tokens, override, priority, split, sec_list)

RECURSIVE BindRoles(_, _, _, _, _, _, _)
\* for slot, token in enumerate(tokens_to_start): a role without a config is
\* skipped, the others are bound to detected_devices[slot]
BindRoles(slot, tokens, devices, override, priority, split, sec_list) ==
    IF slot > Len(tokens) THEN <<>>
    ELSE (IF role_map(tokens[slot], tokens, override, priority, split, sec_list) = <<>>
          THEN <<>>
          ELSE <<[role |-> tokens[slot], slot |-> slot - 1, id |-> devices[slot].id,
                  freq |-> role_map(tokens[slot], tokens, override, priority, split, sec_list)]>>)
         \o BindRoles(slot + 1, tokens, devices, override, priority, split, sec_list)

\* tokens_to_start = plan_tokens[:max_radios]
tokens_to_start(devices, cfg) ==
    FirstN(plan_tokens(split_secondary(MaxRadios(Len(devices), cfg), Len(devices),
                                       choose_secondary_band_defaults(cfg.RTL_AUTO_BAND_PLAN),
                                       cfg.RTL_AUTO_PRIORITY),
                       cfg.RTL_AUTO_PRIORITY),
           MaxRadios(Len(devices), cfg))

\* the auto multi-radio branch of main()
AutoMultiRadios(devices, cfg) ==
    BindRoles(1, tokens_to_start(devices, cfg), devices, cfg.RTL_AUTO_HOPPER_FREQS,
              cfg.RTL_AUTO_PRIORITY,
              split_secondary(MaxRadios(Len(devices), cfg), Len(devices),
                              choose_secondary_band_defaults(cfg.RTL_AUTO_BAND_PLAN),
                              cfg.RTL_AUTO_PRIORITY),
              choose_secondary_band_defaults(cfg.RTL_AUTO_BAND_PLAN))

\* the single radio of the unconfigured mode, on the first dongle
SingleRadio(devices, cfg) ==
    <<[role |-> cfg.RTL_AUTO_PRIORITY, slot |-> 0, id |-> devices[1].id,
       freq |-> CASE cfg.RTL_AUTO_PRIORITY = "primary" -> PrimaryFreqs
                  [] cfg.RTL_AUTO_PRIORITY = "secondary" ->
                         choose_secondary_band_defaults(cfg.RTL_AUTO_BAND_PLAN)
                  [] OTHER -> HopperFreq(cfg.RTL_AUTO_HOPPER_FREQS, "hopper", {},
                                         choose_secondary_band_defaults(cfg.RTL_AUTO_BAND_PLAN))]>>

\* the radio started on device "0" when no dongle is detected
FallbackRadio == <<[role |-> "radio", slot |-> 0, id |-> "0", freq |-> PrimaryFreqs]>>

\* auto multi-radio mode is entered
AutoMulti(devices, cfg) == cfg.RTL_AUTO_MULTI /\ Len(devices) > 1

\* the radios main() starts a thread for, rtl_config being empty
RadiosStarted(devices, cfg) ==
    IF devices = <<>> THEN FallbackRadio
    ELSE IF AutoMulti(devices, cfg) THEN AutoMultiRadios(devices, cfg)
         ELSE SingleRadio(devices, cfg)

\* main() from discover_rtl_devices to the start of the rtl_loop threads
StartRadios(serials) ==
    /\ radios = <<>>
    /\ detected_devices' = RenameDuplicates(Detected(serials), {})
    /\ serial_to_index' = HardwareMap(detected_devices', EmptyMap)
    /\ radios' = RadiosStarted(detected_devices', config)
    /\ StartupUnchanged

InitRadios ==
    /\ InitHandler
    /\ plan = NoPlan
    /\ config \in [BATTERY_OK_CLEAR_AFTER : {0}, gas_unit : {"ft3"},
                   RTL_THROTTLE_INTERVAL : {0},
                   RTL_AUTO_MULTI : BOOLEAN,
                   RTL_AUTO_MAX_RADIOS : 0..MaxRadiosCfg,
                   RTL_AUTO_HARD_CAP : {0, 3},
                   RTL_AUTO_PRIORITY : {"primary", "secondary", "hopper"},
                   RTL_AUTO_BAND_PLAN : {"auto", "eu"},
                   RTL_AUTO_HOPPER_FREQS : {<<>>, <<"868M">>}]
    /\ field_meta_table = "classed"

StartMainRadios == \E serials \in DongleLists : StartRadios(serials)

NextRadios == StartMainRadios

SpecRadios == InitRadios /\ [][NextRadios]_vars

----------------------------------------------------------------------------
(* Two producer threads inside send_sensor for one device, throttling       *)
(* disabled: thread 1 brings a utility total, thread 2 a commodity hint.    *)
(* No lock covers send_sensor; a thread's call is split where it reads or   *)
(* writes the commodity, raw-value and last-value caches.  _publish_discovery *)
(* runs under the discovery lock and is one step, and so is the refresh a   *)
(* hint triggers.                                                            *)

RaceId == "d1"
RaceTotals == {[field |-> "Consumption", value |-> IntV(1000)],
               [field |-> "meter_reading", value |-> IntV(217504)]}
RaceHints == {[field |-> "MeterType", value |-> StrV(" Electric ")],
              [field |-> "MeterType", value |-> StrV("Gas")],
              [field |-> "ert_type", value |-> IntV(3)]}
RaceReadings(t) == IF t = 1 THEN RaceTotals ELSE RaceHints

\* the locals of a thread's call
RaceCall(pc, r) ==
    [pc |-> pc, field |-> r.field, value |-> r.value, meta_override |-> NoMeta,
     out_value |-> r.value, published |-> FALSE]

\* the call's record when the thread goes on after its last step
RaceResumed(t) ==
    [H |-> Handler, base |-> 0, rejected |-> FALSE, out_value |-> threads[t].out_value,
     meta_override |-> threads[t].meta_override, published |-> threads[t].published,
     prev_sig |-> NoSig, sig |-> NoSig, prev_value |-> NoneV]

\* the thread enters send_sensor: tracked_devices.add, the device's model and
\* self._utility_last_raw[(clean_id, field)] = value
RaceRecord(t) ==
    \E r \in RaceReadings(t) :
        /\ threads[t].pc = "idle"
        /\ HandlerBecomes(RecordReading(Handler, RaceId, r.field, r.value,
                                        DeviceNameOf(RaceId), DeviceModelOf(RaceId)))
        /\ threads' = [threads EXCEPT ![t] = RaceCall("learn", r)]
        /\ ThreadUnchanged

\* prev_commodity, commodity_update and, for a changed commodity, the store
\* and the refresh
RaceLearn(t) ==
    /\ threads[t].pc = "learn"
    /\ HandlerBecomes(LearnCommodity(Handler, RaceId, threads[t].field, threads[t].value,
                                     DeviceNameOf(RaceId), DeviceModelOf(RaceId)))
    /\ threads' = [threads EXCEPT ![t].pc = "meta"]
    /\ ThreadUnchanged

\* meta_override = self._utility_meta_override(clean_id, field)
RaceMeta(t) ==
    /\ threads[t].pc = "meta"
    /\ HandlerBecomes(Handler)
    /\ threads' = [threads EXCEPT
          ![t].pc = "normalize",
          ![t].meta_override =
              IF threads[t].field \in UtilityFields
              THEN utility_meta_override(commodity_by_device, device_model_by_id,
                                         RaceId, threads[t].field)
              ELSE NoMeta]
    /\ ThreadUnchanged

\* out_value = self._utility_normalize_value(clean_id, field, out_value, device_model)
RaceNormalize(t) ==
    /\ threads[t].pc = "normalize"
    /\ HandlerBecomes(Handler)
    /\ threads' = [threads EXCEPT
          ![t].pc = "discover",
          ![t].out_value =
              IF threads[t].field \in UtilityFields
              THEN utility_normalize_value(commodity_by_device, device_model_by_id,
                                           RaceId, threads[t].field, threads[t].value,
                                           DeviceModelOf(RaceId))
              ELSE threads[t].value]
    /\ ThreadUnchanged

\* discovery_published_now = self._publish_discovery(..., meta_override=meta_override)
RaceDiscover(t) ==
    /\ threads[t].pc = "discover"
    /\ \E c \in {DiscoverEntity(RaceResumed(t), RaceId, threads[t].field,
                                DeviceNameOf(RaceId), DeviceModelOf(RaceId), NoText)} :
          /\ HandlerBecomes(c.H)
          /\ threads' = [threads EXCEPT ![t].pc = "state", ![t].published = c.published]
    /\ ThreadUnchanged

\* value_changed, the state publish and the return
RaceState(t) ==
    /\ threads[t].pc = "state"
    /\ HandlerBecomes(
          FinishCall(PublishState(RaceResumed(t), RaceId, threads[t].field, TRUE),
                     RaceId, threads[t].field, threads[t].value, TRUE, FALSE))
    /\ threads' = [threads EXCEPT ![t].pc = "returned"]
    /\ ThreadUnchanged

InitRace ==
    /\ InitHandler
    /\ plan = NoPlan
    /\ config \in [BATTERY_OK_CLEAR_AFTER : {0}, gas_unit : {"ft3", "ccf"},
                   RTL_THROTTLE_INTERVAL : {0}]
    /\ field_meta_table \in {"classed", "plain"}

Record == \E t \in Producers : RaceRecord(t)
Learn == \E t \in Producers : RaceLearn(t)
Meta == \E t \in Producers : RaceMeta(t)
Normalize == \E t \in Producers : RaceNormalize(t)
Discover == \E t \in Producers : RaceDiscover(t)
State == \E t \in Producers : RaceState(t)

NextRace == Record \/ Learn \/ Meta \/ Normalize \/ Discover \/ State

SpecRace == InitRace /\ [][NextRace]_vars

----------------------------------------------------------------------------
(* The scan against the producers and the stop timer.  _on_message runs on  *)
(* the network thread of the client, _stop_nuke_scan on the thread of its   *)
(* timer and send_sensor on the threads of the radios.  The callback is     *)
(* split between its test of is_nuking and its publish of the delete, and   *)
(* _stop_nuke_scan at its lock block; thread 1 is the network thread and    *)
(* thread 2 the timer thread.                                               *)

MaxScanRaceTime == 5

CallbackThread == 1
TimerThread == 2

\* what the steps of the callback and of the timer leave alone
ScanRaceUnchanged ==
    UNCHANGED <<now, config, field_meta_table, presses, capture_vars, startup_vars,
                details_vars, shutdown_vars, failed, raised, flusher_alive,
                migration_cleared, battery_state, commodity_by_device,
                device_model_by_id, utility_last_raw, buffer, last_flush, hist,
                nuke_counter, nuke_last_press, current_batch, plan, observers>>

\* _on_message with a retained discovery config, up to the tests that decide
\* on the delete: is_nuking, the manufacturer and the control words
OnMessageDecides(topic) ==
    /\ threads[CallbackThread].pc = "idle"
    /\ nuke_subscribed
    /\ topic \in DOMAIN broker
    /\ IsDiscoveryTopic(broker[topic])
    /\ threads' = [threads EXCEPT ![CallbackThread] =
          IF is_nuking /\ HasSignature(broker[topic].cfg.device.manufacturer)
             /\ ~IsControlTopic(topic)
          THEN [pc |-> "delete", topic |-> topic] ELSE Idle]
    /\ pubs' = <<>>
    /\ calls' = <<>>
    /\ UNCHANGED <<broker, is_nuking, nuke_subscribed, nuke_timers, discovery_published,
                   last_sent_values, tracked_devices, discovery_sig>>
    /\ ScanRaceUnchanged

\* self.client.publish(msg.topic, "", retain=True)
OnMessageDeletes ==
    /\ threads[CallbackThread].pc = "delete"
    /\ threads' = [threads EXCEPT ![CallbackThread] = Idle]
    /\ pubs' = <<TextMsg(threads[CallbackThread].topic, "")>>
    /\ broker' = Retain(broker, TextMsg(threads[CallbackThread].topic, ""))
    /\ calls' = <<>>
    /\ UNCHANGED <<is_nuking, nuke_subscribed, nuke_timers, discovery_published,
                   last_sent_values, tracked_devices, discovery_sig>>
    /\ ScanRaceUnchanged

\* the timer fires: self.is_nuking = False and the unsubscribe
StopScanBegins ==
    /\ threads[TimerThread].pc = "idle"
    /\ nuke_timers # <<>>
    /\ now >= Head(nuke_timers)
    /\ nuke_timers' = Tail(nuke_timers)
    /\ is_nuking' = FALSE
    /\ nuke_subscribed' = FALSE
    /\ threads' = [threads EXCEPT ![TimerThread] = [pc |-> "clear"]]
    /\ pubs' = <<>>
    /\ calls' = <<>>
    /\ UNCHANGED <<broker, discovery_published, last_sent_values, tracked_devices,
                   discovery_sig>>
    /\ ScanRaceUnchanged

\* with self.discovery_lock: the four clear()
StopScanClears ==
    /\ threads[TimerThread].pc = "clear"
    /\ discovery_published' = {}
    /\ last_sent_values' = EmptyMap
    /\ tracked_devices' = {}
    /\ discovery_sig' = EmptyMap
    /\ threads' = [threads EXCEPT ![TimerThread] = [pc |-> "restore"]]
    /\ pubs' = <<>>
    /\ calls' = <<>>
    /\ UNCHANGED <<broker, is_nuking, nuke_subscribed, nuke_timers>>
    /\ ScanRaceUnchanged

\* availability and the three buttons are published again
StopScanRestores ==
    /\ threads[TimerThread].pc = "restore"
    /\ threads' = [threads EXCEPT ![TimerThread] = Idle]
    /\ pubs' = RestoredMsgs
    /\ broker' = RetainAll(broker, RestoredMsgs)
    /\ calls' = <<>>
    /\ UNCHANGED <<is_nuking, nuke_subscribed, nuke_timers, discovery_published,
                   last_sent_values, tracked_devices, discovery_sig>>
    /\ ScanRaceUnchanged

\* a press of the button arrives on the network thread
PressOnCallback ==
    /\ threads[CallbackThread].pc = "idle"
    /\ NukePress
    /\ UNCHANGED <<plan, observers, presses>>

\* a radio thread sends a reading; nothing but a change publishes
SendRaceReading ==
    /\ SendSensorCall(<<"D", ":", "1">>, "temperature", IntV(20), FALSE)
    /\ UNCHANGED <<plan, observers>>

ReceiveRace == \E topic \in DOMAIN broker : OnMessageDecides(topic)
TickScanRace == TickTo(MaxScanRaceTime)

NextScanRace ==
    SendRaceReading \/ PressOnCallback \/ ReceiveRace \/ OnMessageDeletes
    \/ StopScanBegins \/ StopScanClears \/ StopScanRestores \/ TickScanRace

SpecScanRace == InitNuke /\ [][NextScanRace]_vars

----------------------------------------------------------------------------
(* Detonations that overlap: the button is pressed again while the stop     *)
(* timer of an earlier detonation is pending                                *)

MaxOverlapTime == 5
MaxDetonations == 2

PressOverlap ==
    /\ NukePressUpTo(MaxDetonations)
    /\ presses' = Pressed(presses, now, Len(nuke_timers') > Len(nuke_timers))
    /\ UNCHANGED <<plan, observers>>

StopOverlap == StopNukeScan /\ UNCHANGED <<plan, observers>>
TickOverlap == TickTo(MaxOverlapTime)

NextOverlap == PressOverlap \/ StopOverlap \/ TickOverlap

SpecOverlap == InitNuke /\ [][NextOverlap]_vars

----------------------------------------------------------------------------
(* The timed capture of raw lines: start_capture, stop_capture,            *)
(* capture_line and get_capture_status.  The file is named after the        *)
(* second it was opened in; opening and writing can fail.                   *)

MaxCaptureTime == 5
MaxCaptureSeconds == 2
MaxCaptureTimers == 2
MaxLines == 2

CAPTURE_SECONDS_DEFAULT == 30
CAPTURE_SECONDS_CAP == 600

\* seconds = int(seconds or sec_cfg), the default when it is not positive,
\* capped at 600
CaptureSecondsOf(seconds) ==
    IF seconds <= 0 THEN CAPTURE_SECONDS_DEFAULT
    ELSE IF seconds > CAPTURE_SECONDS_CAP THEN CAPTURE_SECONDS_CAP
    ELSE seconds

\* the lines fed to capture_line, and raw_line.rstrip("\n") + "\n"
RawLines == {"", "a", "a\n"}
WithNewline(raw_line) == IF raw_line \in {"a", "a\n"} THEN "a\n" ELSE "\n"

OpenError == "OSError: open"
WriteError == "OSError: write"

\* what the capture leaves alone
CaptureUnchanged ==
    UNCHANGED <<now, config, field_meta_table, discovery_published, last_sent_values,
                tracked_devices, migration_cleared, battery_state, commodity_by_device,
                device_model_by_id, utility_last_raw, discovery_sig, buffer, last_flush,
                broker, hist, nuke_vars, current_batch, failed, flusher_alive, threads,
                presses, startup_vars, details_vars, shutdown_vars, plan, observers>>

\* _capture_close_locked
CaptureClose ==
    /\ capture_fp' = FALSE
    /\ capture_active_until' = 0

\* a variant of capture_line that lets the error of the write escape
CaptureLinePropagates(raw_line, writes) ==
    /\ writes => Len(capture_file) < MaxLines
    /\ IF raw_line = "" \/ ~capture_fp
       THEN /\ raised' = FALSE
            /\ UNCHANGED capture_vars
       ELSE IF now > capture_active_until
       THEN /\ CaptureClose
            /\ raised' = FALSE
            /\ UNCHANGED <<capture_path, capture_last_error, capture_file, capture_timers>>
       ELSE IF writes
       THEN /\ capture_file' = Append(capture_file,
                                      [line |-> WithNewline(raw_line), at |-> now])
            /\ raised' = FALSE
            /\ UNCHANGED <<capture_fp, capture_active_until, capture_path,
                           capture_last_error, capture_timers>>
       ELSE /\ raised' = TRUE
            /\ UNCHANGED capture_vars
    /\ pubs' = <<>>
    /\ calls' = <<>>
    /\ CaptureUnchanged

\* a variant of capture_line without the check of the deadline
CaptureLineIgnoresDeadline(raw_line, writes) ==
    /\ writes => Len(capture_file) < MaxLines
    /\ IF raw_line = "" \/ ~capture_fp
       THEN UNCHANGED capture_vars
       ELSE IF writes
       THEN /\ capture_file' = Append(capture_file,
                                      [line |-> WithNewline(raw_line), at |-> now])
            /\ UNCHANGED <<capture_fp, capture_active_until, capture_path,
                           capture_last_error, capture_timers>>
       ELSE /\ capture_last_error' = WriteError
            /\ CaptureClose
            /\ UNCHANGED <<capture_path, capture_file, capture_timers>>
    /\ raised' = FALSE
    /\ pubs' = <<>>
    /\ calls' = <<>>
    /\ CaptureUnchanged

\* start_capture(seconds); opens tells whether open(path, "a") succeeds
start_capture(seconds, opens) ==
    /\ opens => Cardinality(capture_timers) < MaxCaptureTimers
    /\ IF opens
       THEN /\ capture_fp' = TRUE
            /\ capture_path' = now
            /\ capture_last_error' = NoText
            /\ capture_active_until' = now + CaptureSecondsOf(seconds)
            /\ capture_file' = <<>>
            /\ capture_timers' = capture_timers \cup {now + CaptureSecondsOf(seconds) + 1}
       ELSE /\ capture_fp' = FALSE
            /\ capture_path' = NoTime
            /\ capture_last_error' = OpenError
            /\ capture_active_until' = 0
            /\ UNCHANGED <<capture_file, capture_timers>>
    /\ raised' = FALSE
    /\ pubs' = <<>>
    /\ calls' = <<>>
    /\ CaptureUnchanged

\* the Timer(seconds + 1, stop_capture) that is due fires: stop_capture
stop_capture(due) ==
    /\ due \in capture_timers
    /\ now >= due
    /\ capture_timers' = capture_timers \ {due}
    /\ IF capture_fp
       THEN /\ CaptureClose
            /\ UNCHANGED <<capture_path, capture_last_error, capture_file>>
       ELSE UNCHANGED <<capture_fp, capture_active_until, capture_path,
                        capture_last_error, capture_file>>
    /\ raised' = FALSE
    /\ pubs' = <<>>
    /\ calls' = <<>>
    /\ CaptureUnchanged

\* capture_line(raw_line); writes tells whether the write succeeds
capture_line(raw_line, writes) ==
    /\ writes => Len(capture_file) < MaxLines
    /\ IF raw_line = "" \/ ~capture_fp
       THEN UNCHANGED capture_vars
       ELSE IF now > capture_active_until
       THEN /\ CaptureClose
            /\ UNCHANGED <<capture_path, capture_last_error, capture_file, capture_timers>>
       ELSE IF writes
       THEN /\ capture_file' = Append(capture_file,
                                      [line |-> WithNewline(raw_line), at |-> now])
            /\ UNCHANGED <<capture_fp, capture_active_until, capture_path,
                           capture_last_error, capture_timers>>
       ELSE /\ capture_last_error' = WriteError
            /\ CaptureClose
            /\ UNCHANGED <<capture_path, capture_file, capture_timers>>
    /\ raised' = FALSE
    /\ pubs' = <<>>
    /\ calls' = <<>>
    /\ CaptureUnchanged

\* get_capture_status(), as the parts of the text it returns
get_capture_status ==
    IF ~capture_fp
    THEN IF capture_last_error \notin {NoText, ""}
         THEN <<"idle (error: ", capture_last_error, ")">>
         ELSE <<"idle">>
    ELSE <<"capturing (", MaxOf(0, capture_active_until - now), "s) ", capture_path>>

InitCapture ==
    /\ InitHandler
    /\ plan = NoPlan
    /\ config \in [BATTERY_OK_CLEAR_AFTER : {0}, gas_unit : {"ft3"},
                   RTL_THROTTLE_INTERVAL : {0}]
    /\ field_meta_table = "classed"

StartCapture == \E seconds \in 1..MaxCaptureSeconds, opens \in BOOLEAN : start_capture(seconds, opens)
StopCapture == \E due \in capture_timers : stop_capture(due)
CaptureLine == \E raw_line \in RawLines, writes \in BOOLEAN : capture_line(raw_line, writes)
TickCapture == TickTo(MaxCaptureTime)

NextCapture == StartCapture \/ StopCapture \/ CaptureLine \/ TickCapture

SpecCapture == InitCapture /\ [][NextCapture]_vars

----------------------------------------------------------------------------
(* Properties of the discovery publisher *)

RECURSIVE CountMsgs(_, _, _)
\* how many messages of a kind a sequence of publishes holds for a topic
CountMsgs(msgs, topic, kind) ==
    IF msgs = <<>> THEN 0
    ELSE (IF Head(msgs).topic = topic /\ Head(msgs).kind = kind THEN 1 ELSE 0)
         + CountMsgs(Tail(msgs), topic, kind)

CallUid(c) == UniqueIdV2(c.clean_id, c.field)
CallConfigTopic(c) == ConfigTopic(c.sig[1], CallUid(c))
CallStateTopic(c) == StateTopic(c.clean_id, c.field)
ConfigCount(c) == CountMsgs(c.msgs, CallConfigTopic(c), "config")
StateCount(c) == CountMsgs(c.msgs, CallStateTopic(c), "state")
AnyConfig(msgs) == \E i \in 1..Len(msgs) : msgs[i].kind = "config"

\* C1: every send_sensor call that reaches _publish_discovery publishes one
\* retained discovery config for its unique_id if the signature it computed
\* differs from the one stored before the call (or none was stored), and no
\* discovery config at all if the two are equal; the stored signature is then
\* the computed one.
C1_DiscoveryIffSignatureDiffers ==
    [][\A i \in 1..Len(calls') :
         LET c == calls'[i]
             stored == Get(discovery_sig, CallUid(c), NoSig)
         IN ~c.rejected =>
              /\ stored # c.sig =>
                    /\ ConfigCount(c) = 1
                    /\ \A j \in 1..Len(c.msgs) :
                          c.msgs[j].kind = "config" =>
                             /\ c.msgs[j].topic = CallConfigTopic(c)
                             /\ SignatureOf(c.sig[1], c.msgs[j].cfg) = c.sig
              /\ stored = c.sig => ~AnyConfig(c.msgs)
              /\ discovery_sig'[CallUid(c)] = c.sig]_vars

\* a call found a stored signature, computed a different one and republished
C1_Witness ==
    \E i \in 1..Len(calls) :
        /\ calls[i].prev_sig # NoSig
        /\ calls[i].prev_sig # calls[i].sig
        /\ ConfigCount(calls[i]) = 1

\* C2: a send_sensor call publishes the state exactly when the output value
\* differs from the value last published for the entity, or discovery was
\* published in the same call, or is_rtl is set; it then records the output
\* value as last published; otherwise the call publishes nothing and the
\* record stays as it was.
C2_StatePublishedIffChangedOrForced ==
    [][\A i \in 1..Len(calls') :
         LET c == calls'[i]
             stored == Get(last_sent_values, CallUid(c), NoneV)
             due == ~PyEq(stored, c.out_value) \/ ConfigCount(c) > 0 \/ c.is_rtl
         IN ~c.rejected =>
              /\ due =>
                    /\ StateCount(c) = 1
                    /\ Last(c.msgs) = TextMsg(CallStateTopic(c), PyStr(c.out_value))
                    /\ last_sent_values'[CallUid(c)] = c.out_value
              /\ ~due =>
                    /\ c.msgs = <<>>
                    /\ Get(last_sent_values', CallUid(c), NoneV) = stored]_vars

\* a call with an unchanged value published nothing, and a call republished
\* an equal value because discovery changed
C2_Witness ==
    /\ \E i \in 1..Len(calls) :
          ~calls[i].rejected /\ ~calls[i].is_rtl /\ calls[i].msgs = <<>>
    /\ \E i \in 1..Len(calls) :
          /\ ~calls[i].is_rtl /\ PyEq(calls[i].prev_value, calls[i].out_value)
          /\ StateCount(calls[i]) = 1

\* the step repeats the previous step's call on an entity that the previous
\* step published for the first time: same reading, same metadata, same value
RepeatsFirstPublication ==
    /\ calls # <<>> /\ calls' # <<>>
    /\ LET a == Last(calls)
           b == Last(calls')
       IN /\ ~a.rejected /\ ~b.rejected
          /\ a.prev_sig = NoSig
          /\ a.clean_id = b.clean_id /\ a.field = b.field /\ a.value = b.value
          /\ a.sig = b.sig
          /\ a.out_value = b.out_value

TotalConfig == ConfigCount(Last(calls)) + ConfigCount(Last(calls'))
TotalState == StateCount(Last(calls)) + StateCount(Last(calls'))

\* C3 as stated: the second of two identical publishes adds no message
C3_Original ==
    [][RepeatsFirstPublication => TotalConfig = 1 /\ TotalState = 1 /\ pubs' = <<>>]_vars

\* C3: publishing the same entity twice with identical metadata and value
\* produces one discovery publish in total; the second call adds no message
\* when it is made with is_rtl=False, and exactly one state publish (the same
\* value again) when it is made with is_rtl=True.
C3_RepeatAddsOnlyForcedState ==
    [][RepeatsFirstPublication =>
         /\ TotalConfig = 1
         /\ ~Last(calls').is_rtl => TotalState = 1 /\ pubs' = <<>>
         /\ Last(calls').is_rtl =>
               /\ TotalState = 2
               /\ pubs' = <<TextMsg(CallStateTopic(Last(calls')),
                                    PyStr(Last(calls').out_value))>>]_vars

\* an entity has been published a second time, unchanged, without is_rtl
C3_Witness ==
    /\ calls # <<>>
    /\ LET b == Last(calls)
       IN /\ ~b.rejected /\ ~b.is_rtl /\ ~b.nested
          /\ b.prev_sig = b.sig
          /\ b.prev_value = b.out_value
          /\ pubs = <<>>

----------------------------------------------------------------------------
(* Properties of the battery latch *)

BatteryTopic(d) == StateTopic(d, "battery_ok")

\* C4: once a not-ok reading has latched the device low, every battery_ok
\* reading yields ON until ok readings have come in, with no not-ok reading
\* in between, for at least clear_after seconds counted from the first ok
\* reading after the last not-ok one; with clear_after = 0 the first ok
\* reading yields OFF.  The retained state is what the last reading yielded.
C4_LatchHoldsUntilClearAfter ==
    \A d \in DOMAIN hist :
        LET h == hist[d]
            held == /\ h.ever_low
                    /\ \/ ~h.last_ok
                       \/ ClearAfter > 0 /\ h.last_at - h.first_ok_at < ClearAfter
        IN /\ h.out = (IF held THEN "ON" ELSE "OFF")
           /\ BatteryTopic(d) \in DOMAIN broker
           /\ broker[BatteryTopic(d)].text = h.out

\* a latched device was held low through an ok reading and cleared by a later one
C4_Witness ==
    \E d \in DOMAIN hist :
        /\ hist[d].ever_low /\ hist[d].last_ok /\ hist[d].ok_run >= 2
        /\ ClearAfter > 0
        /\ hist[d].out = "OFF"

\* C5: a not-ok reading leaves the device latched low with no clear candidate;
\* a pending candidate is always the first ok reading after the last not-ok
\* one, so the latch clears no earlier than clear_after seconds after that
\* reading, also after [low, ok, low].
C5_NotOkCancelsCandidate ==
    \A d \in DOMAIN hist :
        LET h == hist[d]
            st == battery_state[d]
        IN /\ ~h.last_ok =>
                 st.latched_low /\ st.ok_candidate_since = NoTime /\ h.out = "ON"
           /\ st.ok_candidate_since # NoTime =>
                 /\ st.latched_low
                 /\ st.ok_candidate_since = h.first_ok_at
                 /\ st.ok_candidate_since >= h.last_low_at
           /\ h.ever_low /\ ~st.latched_low =>
                 st.ok_since # NoTime /\ st.ok_since - h.first_ok_at >= ClearAfter

\* after [low, ok, low] the ok readings waited clear_after again and cleared
C5_Witness ==
    \E d \in DOMAIN hist :
        /\ hist[d].interrupted /\ hist[d].last_ok
        /\ ClearAfter > 0
        /\ hist[d].out = "OFF"

\* the readings since the last not-ok one are ok readings one interval apart,
\* and clear_after is a whole number of intervals
EvenlySpaced(h) ==
    /\ h.ever_low /\ h.last_ok /\ h.even
    /\ h.gap > 0
    /\ ClearAfter > 0 /\ ClearAfter % h.gap = 0

\* C6 as stated: with clear_after = N * interval, ON for the first N-1 ok
\* readings and OFF at the Nth
C6_Original ==
    \A d \in DOMAIN hist :
        EvenlySpaced(hist[d]) =>
            (hist[d].out = "ON" <=> hist[d].ok_run < ClearAfter \div hist[d].gap)

\* C6: given [low, ok, ..., ok] with the ok readings one interval apart and
\* clear_after = N * interval, the state is LOW for the first N ok readings
\* and becomes OK at ok reading N + 1, the first one that comes clear_after
\* seconds after the first ok reading.
C6_ClearsAtReadingNPlusOne ==
    \A d \in DOMAIN hist :
        EvenlySpaced(hist[d]) =>
            (hist[d].out = "ON" <=> hist[d].ok_run <= ClearAfter \div hist[d].gap)

\* N = 2: the third evenly spaced ok reading has cleared the latch
C6_Witness ==
    \E d \in DOMAIN hist :
        /\ EvenlySpaced(hist[d])
        /\ ClearAfter \div hist[d].gap = 2
        /\ hist[d].ok_run = 3
        /\ hist[d].out = "OFF"

\* C8: a battery_ok reading that does not parse as a boolean publishes
\* nothing and leaves the battery state, the signatures, the last published
\* values and the migration record as they were.
C8_UnparseableBatteryRejected ==
    [][\A i \in 1..Len(calls') :
         (calls'[i].field = "battery_ok" /\ calls'[i].value \in UnparseableInputs) =>
            /\ pubs' = <<>>
            /\ broker' = broker
            /\ battery_state' = battery_state
            /\ discovery_sig' = discovery_sig
            /\ last_sent_values' = last_sent_values
            /\ discovery_published' = discovery_published
            /\ migration_cleared' = migration_cleared]_vars

\* an unparseable reading was fed to a device that is latched low
C8_Witness ==
    /\ calls # <<>>
    /\ Last(calls).field = "battery_ok"
    /\ Last(calls).value \in UnparseableInputs
    /\ Last(calls).clean_id \in DOMAIN battery_state
    /\ battery_state[Last(calls).clean_id].latched_low

----------------------------------------------------------------------------
(* Properties of the commodity resolver *)

CachedFields(raw, d) == {raw[i].field : i \in {j \in 1..Len(raw) : raw[j].cid = d}}
CachedValue(raw, d, f) ==
    raw[CHOOSE i \in 1..Len(raw) : raw[i].cid = d /\ raw[i].field = f].value
NestedCallsFor(cs, d, f) ==
    {i \in 1..Len(cs) : cs[i].nested /\ cs[i].clean_id = d /\ cs[i].field = f}
CommodityChanged(d) ==
    /\ d \in DOMAIN commodity_by_device'
    /\ Get(commodity_by_device, d, NoText) # commodity_by_device'[d]

\* C9 as stated: a commodity change republishes the discovery and the state
\* of every cached utility reading of the device
C9_Original ==
    [][\A d \in DOMAIN commodity_by_device' :
         CommodityChanged(d) =>
            \A f \in CachedFields(utility_last_raw, d) :
               \E i \in NestedCallsFor(calls', d, f) :
                  ConfigCount(calls'[i]) = 1 /\ StateCount(calls'[i]) = 1]_vars

\* C9: when a hint changes the stored commodity of a device, every utility
\* reading cached for it is re-evaluated once, from the cached raw value and
\* without is_rtl: its discovery is republished if the new signature differs
\* from the stored one (always when the old commodity was known) and its
\* state if the discovery was or the converted value differs.  Afterwards the
\* retained config has the unit and device class of the new commodity under
\* the same unique_id and state topic, and the value last published is the
\* commodity-converted value.
C9_CommodityChangeReevaluatesCached ==
    [][\A d \in DOMAIN commodity_by_device' :
         CommodityChanged(d) =>
            \A f \in CachedFields(utility_last_raw, d) :
               LET uid == UniqueIdV2(d, f)
                   meta == utility_meta_override(commodity_by_device',
                                                 device_model_by_id', d, f)
                   converted == utility_normalize_value(commodity_by_device',
                                    device_model_by_id', d, f,
                                    CachedValue(utility_last_raw, d, f),
                                    device_model_by_id'[d])
                   retained == broker'[ConfigTopic("sensor", uid)].cfg
               IN /\ Cardinality(NestedCallsFor(calls', d, f)) = 1
                  /\ \A i \in NestedCallsFor(calls', d, f) :
                        /\ ~calls'[i].is_rtl
                        /\ calls'[i].value = CachedValue(utility_last_raw, d, f)
                        /\ ConfigCount(calls'[i]) =
                              (IF Get(discovery_sig, uid, NoSig) # calls'[i].sig
                               THEN 1 ELSE 0)
                        /\ Get(commodity_by_device, d, NoText) # NoText =>
                              ConfigCount(calls'[i]) = 1
                        /\ ConfigCount(calls'[i]) = 1 => StateCount(calls'[i]) = 1
                  /\ retained.unit_of_measurement = meta[1]
                  /\ retained.device_class = meta[2]
                  /\ retained.unique_id = uid
                  /\ retained.state_topic = StateTopic(d, f)
                  /\ PyEq(last_sent_values'[uid], converted)
                  /\ broker'[StateTopic(d, f)].text \in
                        {PyStr(converted), PyStr(CachedValue(utility_last_raw, d, f))}
                  /\ utility_last_raw' = utility_last_raw]_vars

\* a hint changed the commodity of a device with two cached utility readings
\* and both were republished with a converted value
C9_Witness ==
    /\ Len(calls) = 3
    /\ calls[1].nested /\ calls[2].nested
    /\ ConfigCount(calls[1]) = 1 /\ ConfigCount(calls[2]) = 1
    /\ calls[1].out_value # calls[1].value

\* the handler of a freshly constructed bridge
FreshHandler ==
    [discovery_published |-> {}, last_sent_values |-> EmptyMap, tracked_devices |-> {},
     migration_cleared |-> {}, battery_state |-> EmptyMap,
     commodity_by_device |-> EmptyMap, device_model_by_id |-> EmptyMap,
     utility_last_raw |-> <<>>, discovery_sig |-> EmptyMap, broker |-> EmptyMap,
     pubs |-> <<>>, calls |-> <<>>, faults |-> <<>>, failed |-> <<>>, raised |-> FALSE]

RECURSIVE RunReadings(_, _)
RunReadings(H, rs) ==
    IF rs = <<>> THEN H
    ELSE LET r == Head(rs)
             d == clean_mac(r.sensor_id)
         IN RunReadings(send_sensor(H, d, r.field, r.value, DeviceNameOf(d),
                                    DeviceModelOf(d), r.is_rtl, NoText, FALSE),
                        Tail(rs))

\* the two readings of the plan in the other order, on a fresh bridge
OtherOrder == RunReadings(FreshHandler, <<plan.all[2], plan.all[1]>>)
PlanDone == plan.all # <<>> /\ plan.todo = <<>>
PlanUtility == IF plan.all[1].field \in UtilityFields THEN plan.all[1] ELSE plan.all[2]
PlanConfigTopic ==
    ConfigTopic("sensor", UniqueIdV2(clean_mac(PlanUtility.sensor_id), PlanUtility.field))
PlanStateTopic == StateTopic(clean_mac(PlanUtility.sensor_id), PlanUtility.field)
PlanUid == UniqueIdV2(clean_mac(PlanUtility.sensor_id), PlanUtility.field)

\* C10 as stated: both orders leave the same retained config and the same
\* retained state payload
C10_Original ==
    PlanDone =>
        /\ broker[PlanConfigTopic] = OtherOrder.broker[PlanConfigTopic]
        /\ broker[PlanStateTopic] = OtherOrder.broker[PlanStateTopic]

\* C10: a commodity hint and a utility total of one device leave the same
\* retained discovery config and numerically the same last published value
\* whichever arrives first; the retained state payload is that value written
\* as the normalized float or, when the refresh found nothing to republish,
\* as the raw reading.
C10_OrderIndependentUpToFormat ==
    PlanDone =>
        /\ broker[PlanConfigTopic] = OtherOrder.broker[PlanConfigTopic]
        /\ PyEq(last_sent_values[PlanUid], OtherOrder.last_sent_values[PlanUid])
        /\ discovery_sig[PlanUid] = OtherOrder.discovery_sig[PlanUid]
        /\ commodity_by_device = OtherOrder.commodity_by_device
        /\ broker[PlanStateTopic].text \in
              {PyStr(last_sent_values[PlanUid]), PyStr(PlanUtility.value)}

\* the total came first and the hint's refresh republished it converted
C10_Witness ==
    /\ PlanDone
    /\ plan.all[1].field \in UtilityFields
    /\ Len(calls) = 2 /\ calls[1].nested
    /\ ConfigCount(calls[1]) = 1
    /\ calls[1].out_value # calls[1].value

----------------------------------------------------------------------------
(* The battery latch behind the aggregation buffer *)

\* the readings since the last not-ok one came out of flushes one second apart
FlushedEverySecond(h) ==
    /\ ThrottleInterval = 1
    /\ h.ever_low /\ h.last_ok /\ h.even /\ h.gap = 1

\* C7: with a 1-second flush interval and clear_after = 5, battery_ok=0
\* followed by battery_ok=1 readings flushed one per second publishes ON for
\* the first five of the battery_ok=1 readings and OFF from the sixth on.
C7_ThrottledLatchClearsAtSixthOk ==
    \A d \in DOMAIN hist :
        (FlushedEverySecond(hist[d]) /\ ClearAfter = 5) =>
            /\ hist[d].out = (IF hist[d].ok_run <= 5 THEN "ON" ELSE "OFF")
            /\ broker[BatteryTopic(d)].text = hist[d].out

\* the sixth battery_ok=1 reading in a row was flushed and published OFF
C7_Witness ==
    \E d \in DOMAIN hist :
        /\ FlushedEverySecond(hist[d]) /\ ClearAfter = 5
        /\ hist[d].ok_run = 6
        /\ hist[d].out = "OFF"
        /\ buffer = <<>> /\ last_flush = now
        /\ pubs = <<TextMsg(BatteryTopic(d), "OFF")>>

----------------------------------------------------------------------------
(* Properties of the stored commodity and of the unit conversion *)

KnownCommodities == {"electric", "gas", "water"}

\* the hints of SpecNuke that name a commodity, read off ERT_TYPE_COMMODITY:
\* <<field, value, commodity>>
RecognisedHints ==
    {<<"ert_type", IntV(0), "gas">>, <<"ert_type", IntV(3), "water">>}

\* the step handled a reading of the device whose hint names the commodity
HintArrivedFor(id, commodity) ==
    \E i \in 1..Len(calls') :
        /\ ~calls'[i].nested
        /\ calls'[i].clean_id = id
        /\ <<calls'[i].field, calls'[i].value, commodity>> \in RecognisedHints

\* C11: a stored commodity is always electric, gas or water; once stored, no
\* reading (with a recognised, unrecognised or unparseable hint), no nuke press,
\* no scan message and no end of a nuke scan removes it or makes it unknown,
\* and it changes only to another known commodity in a step that handled a
\* recognised hint for that commodity.
C11_CommodityNeverReverts ==
    [][/\ \A id \in DOMAIN commodity_by_device' :
              commodity_by_device'[id] \in KnownCommodities
       /\ \A id \in DOMAIN commodity_by_device :
              /\ id \in DOMAIN commodity_by_device'
              /\ commodity_by_device'[id] # commodity_by_device[id]
                     => HintArrivedFor(id, commodity_by_device'[id])]_vars

\* a device keeps its commodity after a completed nuke scan and a later
\* unrecognised hint
C11_Witness ==
    /\ TOPIC_AVAILABILITY \in DOMAIN broker
    /\ ~is_nuking
    /\ \E i \in 1..Len(calls) :
           /\ calls[i].value = StrV("junk")
           /\ Get(commodity_by_device, calls[i].clean_id, NoText) \in KnownCommodities

\* the device of the call had no commodity when the call normalised its value:
\* the commodity changes only before the nested calls of the same step
CommodityUnknownAt(c) == Get(commodity_by_device', c.clean_id, NoText) = NoText

\* the calls of the step that the conversion must leave alone
OutsideConversion(c) ==
    /\ c.value # NoneV
    /\ ~c.rejected
    /\ c.field \notin UtilityFields \/ CommodityUnknownAt(c)

\* C12 as stated: for every field other than the four totals, and for every
\* device of unknown commodity, the value published is the input value and
\* no metadata override is applied.
C12_Original ==
    [][\A i \in 1..Len(calls') :
          OutsideConversion(calls'[i]) =>
              /\ calls'[i].out_value = calls'[i].value
              /\ calls'[i].meta_override = NoMeta]_vars

\* C12, amended: outside the four totals, and for a device of unknown
\* commodity, no metadata override is applied and the value published is the
\* input value unchanged, except that battery_ok is published as ON or OFF.
C12_ConversionOnlyOnKnownTotals ==
    [][\A i \in 1..Len(calls') :
          OutsideConversion(calls'[i]) =>
              /\ calls'[i].meta_override = NoMeta
              /\ IF calls'[i].field = "battery_ok"
                 THEN calls'[i].out_value \in {StrV("ON"), StrV("OFF")}
                 ELSE /\ calls'[i].out_value = calls'[i].value
                      /\ TextMsg(StateTopic(calls'[i].clean_id, calls'[i].field),
                                 PyStr(calls'[i].value)) = Last(calls'[i].msgs)]_vars

\* a total of a device of unknown commodity and a non-total of a device of
\* known commodity were published, while a total of the known device is
\* converted
C12_Witness ==
    /\ Get(commodity_by_device, "d1", NoText) = "gas"
    /\ Get(commodity_by_device, "e2", NoText) = NoText
    /\ Get(last_sent_values, UniqueIdV2("e2", "meter_reading"), NoneV) = IntV(1000)
    /\ Get(last_sent_values, UniqueIdV2("d1", "temperature"), NoneV) = FloatV(2150)
    /\ Get(last_sent_values, UniqueIdV2("d1", "Consumption"), NoneV) = FloatV(300)
    /\ \E i \in 1..Len(calls) : calls[i].field = "temperature"

----------------------------------------------------------------------------
(* Properties of the aggregation buffer *)

\* C13: with throttling on, under every interleaving of producers and the
\* flush thread, the readings accepted for a device and a field are, in
\* order, those already reduced, then those of the batch being flushed, then
\* those still buffered: each reading is in exactly one batch, none is lost
\* and none is reduced twice.
C13_EveryReadingInExactlyOneBatch ==
    /\ KeysOf(buffer) \cup KeysOf(current_batch) \cup DOMAIN reduced \subseteq DOMAIN accepted
    /\ \A k \in DOMAIN accepted :
           accepted[k] = Get(reduced, k, <<>>) \o ValuesOfKey(current_batch, k[1], k[2])
                                               \o ValuesOfKey(buffer, k[1], k[2])

\* readings of one field were reduced in an earlier batch, are in the batch
\* being flushed, and arrived after the swap
C13_Witness ==
    \E k \in DOMAIN reduced :
        /\ reduced[k] # <<>>
        /\ ValuesOfKey(current_batch, k[1], k[2]) # <<>>
        /\ ValuesOfKey(buffer, k[1], k[2]) # <<>>

\* the calls the step made for readings, leaving out the refresh's own
TopCalls(cs) == SelectSeq(cs, LAMBDA c : ~c.nested)

\* C14: the step that reduces a batch forwards exactly one value to
\* send_sensor for every <<device, field>> that has a reading in the batch and
\* none for any other pair; every other step of the flush thread, the swap of
\* an empty buffer included, forwards nothing.
C14_OneValuePerBufferedField ==
    [][IF current_batch # <<>> /\ current_batch' = <<>>
       THEN /\ \A k \in KeysOf(current_batch) :
                  Cardinality({i \in 1..Len(TopCalls(calls')) :
                                  <<TopCalls(calls')[i].clean_id,
                                    TopCalls(calls')[i].field>> = k}) = 1
            /\ \A i \in 1..Len(TopCalls(calls')) :
                  /\ <<TopCalls(calls')[i].clean_id, TopCalls(calls')[i].field>>
                         \in KeysOf(current_batch)
                  /\ Len(TopCalls(calls')[i].msgs) > 0
       ELSE arrived' = NoReading => calls' = <<>> /\ pubs' = <<>>]_vars

\* a flush has just forwarded one value for each of two devices
C14_Witness ==
    /\ current_batch = <<>>
    /\ arrived = NoReading
    /\ Len(calls) = 2
    /\ {<<calls[i].clean_id, calls[i].field>> : i \in 1..Len(calls)} =
           {<<"d1", "Wind_Dir">>, <<"e2", "temperature">>}

\* C15: a null reading handed to dispatch_reading is neither buffered nor
\* forwarded, whatever the interval; with the interval at or below zero a
\* non-null reading is forwarded at once in one send_sensor call with
\* is_rtl = True, which publishes its state whether or not the value changed,
\* and the buffer stays empty.
C15_DisabledThrottleSendsImmediately ==
    [][arrived' # NoReading =>
          IF arrived'.value = NoneV
          THEN /\ calls' = <<>>
               /\ pubs' = <<>>
               /\ UNCHANGED <<buffer, current_batch, broker, last_sent_values,
                              discovery_published>>
          ELSE ThrottleInterval <= 0 =>
                  /\ buffer = <<>> /\ buffer' = <<>>
                  /\ Len(calls') = 1
                  /\ calls'[1].clean_id = arrived'.id
                  /\ calls'[1].field = arrived'.field
                  /\ calls'[1].value = arrived'.value
                  /\ calls'[1].is_rtl
                  /\ Last(pubs') = TextMsg(StateTopic(arrived'.id, arrived'.field),
                                           PyStr(arrived'.value))]_vars

\* with throttling disabled, a reading equal to the value last sent was
\* forwarded and published again
C15_Witness ==
    /\ ThrottleInterval <= 0
    /\ arrived # NoReading
    /\ Len(calls) = 1
    /\ PyEq(calls[1].prev_value, arrived.value)
    /\ Len(calls[1].msgs) = 1

\* a null reading was dropped while readings were buffered
C15_NullWitness ==
    /\ arrived # NoReading
    /\ arrived.value = NoneV
    /\ buffer # <<>>

----------------------------------------------------------------------------
(* Properties of the reduction, on the runs of SpecReduce *)

\* the values of the interval that the latest step reduced, in arrival order
Interval == Get(reduced, <<"d1", plan.field>>, <<>>)
JustReduced == Interval # <<>>
\* the value the flush handed to send_sensor
Forwarded == calls[1].value
ModeOfRun == aggregation_mode(plan.field, DeviceModelOf("d1"))

\* the same number, an integral float possibly written as an integer
SameValue(v, w) == PyEq(v, w) /\ v \in {w, IntLike(w)}

\* C16: when the field's mode is last, or the interval holds a non-numeric
\* value, the flush forwards exactly one value, the final element of the
\* interval in arrival order (an integral float in its integer form).
C16_LastModeForwardsFinalElement ==
    JustReduced /\ (ModeOfRun = "last" \/ ~AllNum(Interval)) =>
        /\ Len(calls) = 1
        /\ calls[1].field = plan.field
        /\ SameValue(Forwarded, Last(Interval))

\* a wind direction whose last reading is neither the first, the greatest nor
\* the mean
C16_Witness ==
    /\ JustReduced
    /\ plan.field = "Wind_Dir"
    /\ Interval = <<IntV(350), FloatV(1000), IntV(10)>>
    /\ Forwarded = IntV(10)

\* texts among the readings of a field that is averaged
C16_TextWitness ==
    /\ JustReduced
    /\ plan.field = "temperature"
    /\ Interval = <<StrV("junk"), IntV(22), IntV(20)>>
    /\ Forwarded = IntV(20)

\* the interval in another order of arrival
Reordered(p) == [i \in 1..Len(Interval) |-> Interval[p[i]]]

\* C17: when the field's mode is max and the interval's values are numbers,
\* the flush forwards a value of the interval that no value of the interval
\* exceeds (an integral float in its integer form), and every other order of
\* arrival of the same values gives the same forwarded value.
C17_MaxModeForwardsMaximum ==
    JustReduced /\ ModeOfRun = "max" /\ AllNum(Interval) =>
        /\ Len(calls) = 1
        /\ \E i \in 1..Len(Interval) : SameValue(Forwarded, Interval[i])
        /\ \A j \in 1..Len(Interval) : Hundredths(Interval[j]) <= Hundredths(Forwarded)
        /\ \A p \in Permutations(1..Len(Interval)) :
               Aggregate(plan.field, DeviceModelOf("d1"), Reordered(p)) = Forwarded

\* the greatest value arrived in the middle, as a float and again as the
\* equal integer
C17_Witness ==
    /\ JustReduced
    /\ plan.field = "RSSI"
    /\ Interval = <<FloatV(250), FloatV(300), IntV(3)>>
    /\ Forwarded = IntV(3)

AllInt(values) == \A i \in 1..Len(values) : values[i].t = "int"
Distance(a, b) == IF a >= b THEN a - b ELSE b - a

\* C18: when the field's mode is mean and the interval's values are numbers,
\* the flush forwards the hundredth nearest to the arithmetic mean of the
\* interval; when all the values are integers and the mean is a whole number,
\* the forwarded value is that integer, typed as an integer.
C18_MeanModeForwardsRoundedMean ==
    JustReduced /\ ModeOfRun = "mean" /\ AllNum(Interval) =>
        /\ Len(calls) = 1
        /\ 2 * Distance(Hundredths(Forwarded) * Len(Interval), SumHundredths(Interval))
               <= Len(Interval)
        /\ AllInt(Interval) /\ SumHundredths(Interval) % (100 * Len(Interval)) = 0 =>
               /\ Forwarded.t = "int"
               /\ Forwarded.n * Len(Interval) * 100 = SumHundredths(Interval)

\* three integers whose mean is rounded up in its second decimal
C18_Witness ==
    /\ JustReduced
    /\ plan.field = "temperature"
    /\ Interval = <<IntV(20), IntV(22), IntV(20)>>
    /\ Forwarded = FloatV(2067)

\* integers whose mean is a whole number that is none of them
C18_IntegralWitness ==
    /\ JustReduced
    /\ plan.field = "temperature"
    /\ Interval = <<IntV(22), IntV(20)>>
    /\ Forwarded = IntV(21)

\* the angular fields of the runs, in the letter case they arrive in, and the
\* battery flag
NeverAveraged == {"Wind_Dir", "WIND_DIR_DEG", "battery_ok"}

\* C19: for a wind direction field, in whatever letter case, and for
\* battery_ok, the flush forwards a value that was observed in the interval,
\* namely the last one, and never their arithmetic mean.
C19_AnglesAndBatteryNeverAveraged ==
    JustReduced /\ plan.field \in NeverAveraged =>
        /\ Len(calls) = 1
        /\ \E i \in 1..Len(Interval) : SameValue(Forwarded, Interval[i])
        /\ SameValue(Forwarded, Last(Interval))

\* directions on both sides of north, whose mean would point south
C19_Witness ==
    /\ JustReduced
    /\ plan.field = "WIND_DIR_DEG"
    /\ Interval = <<IntV(350), IntV(10)>>
    /\ Forwarded = IntV(10)

\* a battery that went low within the interval
C19_BatteryWitness ==
    /\ JustReduced
    /\ plan.field = "battery_ok"
    /\ Interval = <<IntV(1), IntV(0)>>
    /\ Forwarded = IntV(0)

\* max() or statistics.mean() raises on the interval: it starts with a number,
\* holds a text, and the field's mode is not last
ReductionFails ==
    /\ IsNum(Interval[1])
    /\ ~AllNum(Interval)
    /\ ModeOfRun \in {"max", "mean"}

\* C20: every flush forwards one value for the field and publishes its
\* state; when the arithmetic of the reduction fails, the value forwarded is
\* the last raw value of the interval, as it arrived.
C20_FailureFallsBackToLastRaw ==
    JustReduced =>
        /\ Len(calls) = 1
        /\ calls[1].field = plan.field
        /\ calls[1].value # NoneV
        /\ Len(calls[1].msgs) > 0
        /\ ReductionFails => Forwarded = Last(Interval)

\* a text among the numbers of a field reduced with max; the last raw value
\* is forwarded as the float it arrived as
C20_Witness ==
    /\ JustReduced
    /\ plan.field = "RSSI"
    /\ Interval = <<IntV(3), StrV("junk"), FloatV(300)>>
    /\ Forwarded = FloatV(300)
    /\ Last(pubs).text = "3.0"

----------------------------------------------------------------------------
(* Properties of the migration of the battery entity *)

\* how many deletes of the old numeric sensor's entry the threads published
TotalDeletes == DeletesOf(1) + DeletesOf(2)

\* C21: the delete of the old numeric-sensor discovery entry of a battery_ok
\* entity is published exactly once per process lifetime, whatever the
\* number of readings and the interleaving of the producer threads: never
\* twice, and once by the time the entity is in migration_cleared.
C21_DeletePublishedExactlyOnce ==
    /\ TotalDeletes <= 1
    /\ MigrateUid \in migration_cleared => TotalDeletes = 1

\* two threads are inside the migration block of the same entity at once
C21_Witness ==
    /\ threads[1].pc = "publish"
    /\ threads[2].pc = "publish"
    /\ MigrateUid \notin migration_cleared

----------------------------------------------------------------------------
(* Properties of the nuke button *)

\* the last press started the scan
ScanJustStarted == presses # <<>> /\ Last(presses).started

\* the presses kept are NUKE_THRESHOLD presses of which only the last
\* started a scan
FullRun ==
    /\ Len(presses) = NUKE_THRESHOLD
    /\ \A i \in 1..(NUKE_THRESHOLD - 1) : ~presses[i].started

\* each press of the run came within NUKE_TIMEOUT of the press before it
CloselySpaced ==
    \A i \in 1..(Len(presses) - 1) : presses[i + 1].at - presses[i].at <= NUKE_TIMEOUT

\* C22 as stated: the scan starts only after NUKE_THRESHOLD presses that all
\* fall within one window of NUKE_TIMEOUT seconds; fewer presses, or five
\* presses not contained in such a window, never start it.
C22_Original ==
    ScanJustStarted =>
        FullRun /\ Last(presses).at - presses[1].at <= NUKE_TIMEOUT

\* C22: the scan starts exactly on the fifth press of a run in which every
\* press comes within NUKE_TIMEOUT seconds of the press before it; fewer
\* presses, or a gap longer than NUKE_TIMEOUT inside the run, never start it.
C22_ScanStartsOnFifthCloselySpacedPress ==
    /\ ScanJustStarted => FullRun /\ CloselySpaced
    /\ FullRun /\ CloselySpaced => Last(presses).started

\* a scan started by five presses that span more than NUKE_TIMEOUT seconds
C22_Witness ==
    /\ ScanJustStarted
    /\ is_nuking
    /\ Last(presses).at - presses[1].at > NUKE_TIMEOUT

\* five presses with a gap longer than NUKE_TIMEOUT among them start nothing
C22_GapWitness ==
    /\ Len(presses) = NUKE_THRESHOLD
    /\ \A i \in 1..NUKE_THRESHOLD : ~presses[i].started
    /\ ~CloselySpaced
    /\ ~is_nuking

----------------------------------------------------------------------------
(* Properties of the scan *)

\* the topic's retained config is the bridge's own and none of its three
\* control entities
OwnEntity(topic) ==
    /\ HasSignature(broker[topic].cfg.device.manufacturer)
    /\ topic \notin {ButtonTopic(b) : b \in ButtonNames}

\* the step deleted the topic: an empty retained payload was published to it
\* and the broker dropped its retained config
Deleted(topic) ==
    /\ pubs' = <<TextMsg(topic, "")>>
    /\ topic \notin DOMAIN broker'

\* C23: while a scan is active, every discovery config received whose
\* manufacturer holds the signature rtl-haos is deleted by an empty retained
\* payload on its topic, except the nuke, restart and capture control
\* entities, which are never deleted; a config of another manufacturer is
\* never deleted.
C23_ScanDeletesOwnEntitiesOnly ==
    [][\A topic \in DOMAIN broker :
          NukeScanOf(topic) =>
              IF is_nuking /\ OwnEntity(topic)
              THEN Deleted(topic)
              ELSE pubs' = <<>> /\ broker' = broker]_vars

\* the scan has just deleted an entity of the bridge, with the buttons and
\* the config of another publisher retained
C23_Witness ==
    /\ is_nuking
    /\ pubs = <<TextMsg(ConfigTopic("sensor", UniqueIdV2("d1", "temperature")), "")>>
    /\ ConfigTopic("sensor", UniqueIdV2("d1", "temperature")) \notin DOMAIN broker
    /\ \A b \in ButtonNames : ButtonTopic(b) \in DOMAIN broker
    /\ OtherTopic \in DOMAIN broker
    /\ broker[OtherTopic].cfg.device.manufacturer = "zigbee2mqtt"

\* the step is the end of a scan window: a stop timer fired
ScanEnds == Len(nuke_timers') < Len(nuke_timers)

\* the entity's last published state is still retained and equals the value
\* of the call, and the entity has no signature in the cache
UnchangedButForgotten(c) ==
    /\ ~c.rejected
    /\ CallUid(c) \notin DOMAIN discovery_sig
    /\ CallStateTopic(c) \in DOMAIN broker
    /\ broker[CallStateTopic(c)].text = PyStr(c.out_value)

\* C24: when the scan window ends, the discovery-published set, the
\* signature cache and the last-published-value cache are empty, and the
\* next reading of an entity publishes its discovery config and its state
\* again although neither its metadata nor its value changed.
C24_ScanEndForcesRepublication ==
    [][/\ ScanEnds =>
            /\ discovery_published' = {}
            /\ discovery_sig' = EmptyMap
            /\ last_sent_values' = EmptyMap
       /\ \A i \in 1..Len(calls') :
            UnchangedButForgotten(calls'[i]) =>
                /\ ~calls'[i].is_rtl
                /\ ConfigCount(calls'[i]) = 1
                /\ StateCount(calls'[i]) = 1
                /\ Len(calls'[i].msgs) = 2]_vars

\* a scan has ended and left the caches empty, with the state and the
\* config of an entity published before it still retained by the broker
C24_Witness ==
    /\ ~is_nuking
    /\ nuke_timers = <<>>
    /\ pubs = RestoredMsgs
    /\ discovery_published = {}
    /\ discovery_sig = EmptyMap
    /\ last_sent_values = EmptyMap
    /\ StateTopic("d1", "temperature") \in DOMAIN broker
    /\ ConfigTopic("sensor", UniqueIdV2("d1", "temperature")) \in DOMAIN broker
    /\ device_model_by_id # EmptyMap

----------------------------------------------------------------------------
(* Properties of the capture *)

\* the capture is active and its deadline has not passed
WithinDeadline == capture_fp /\ now <= capture_active_until

\* C25: capture_line writes a line only while a capture is active and its
\* deadline has not passed; a line fed after the deadline closes the sink
\* and is not written, whether or not the stop timer has fired; a line fed
\* while no capture is active changes nothing.
C25_LinesWrittenOnlyWithinDeadline ==
    [][\A raw_line \in RawLines \ {""}, writes \in BOOLEAN :
          capture_line(raw_line, writes) =>
              /\ capture_file' # capture_file =>
                    /\ WithinDeadline
                    /\ capture_file' = Append(capture_file,
                                              [line |-> WithNewline(raw_line), at |-> now])
              /\ capture_fp /\ now > capture_active_until =>
                    /\ ~capture_fp'
                    /\ capture_file' = capture_file
                    /\ capture_last_error' = capture_last_error
              /\ ~capture_fp => UNCHANGED capture_vars]_vars

\* a capture started at second 0 for one second was closed by a line fed
\* after its deadline while its stop timer is still pending
C25_Witness ==
    /\ ~capture_fp
    /\ capture_path = 0
    /\ capture_last_error = NoText
    /\ capture_timers = {2}
    /\ now >= 2
    /\ Len(capture_file) = 1
    /\ capture_file[1].at <= 1

\* the step is a call of start_capture
StartsCapture ==
    \E seconds \in 1..MaxCaptureSeconds, opens \in BOOLEAN : start_capture(seconds, opens)

C26_OpenWitness ==
    /\ ~capture_fp
    /\ ~raised
    /\ capture_path = NoTime
    /\ get_capture_status = <<"idle (error: ", OpenError, ")">>

\* a round of the flush loop: the buffer that held readings is swapped out
FlushRound == buffer # <<>> /\ buffer' = <<>>

\* C27: per-device isolation at flush.  In every round of the flush loop, also
\* one in which a publish raises, each value of the batch is handed to
\* send_sensor, and the flush loop is alive afterwards to run later rounds.
C27_FlushIsolatesFailures ==
    [][FlushRound =>
          /\ Len(TopCalls(calls')) = Len(BatchItems(buffer))
          /\ flusher_alive']_vars

\* a round in which the first device was published and the second one raised
C27_Witness == raised /\ ~flusher_alive /\ pubs # <<>> /\ Len(TopCalls(calls)) = 2

\* the step's publish of the message of this kind on this topic failed
FailedPublish(kind, topic) ==
    \E i \in 1..Len(failed') : failed'[i].kind = kind /\ failed'[i].topic = topic

\* C28: a step in which the publish of an entity's discovery config fails
\* leaves the stored signature of the entity as it was, and one in which the
\* publish of its state fails leaves its stored last-published value as it was.
C28_FailedPublishLeavesRecordsUnchanged ==
    [][\A id \in RawIds :
          LET unique_id == UniqueIdV2(clean_mac(id), "temperature")
          IN /\ FailedPublish("config", ConfigTopic("sensor", unique_id))
                  => Get(discovery_sig', unique_id, NoSig) = Get(discovery_sig, unique_id, NoSig)
             /\ FailedPublish("state", StateTopic(clean_mac(id), "temperature"))
                  => Get(last_sent_values', unique_id, NoneV)
                         = Get(last_sent_values, unique_id, NoneV)]_vars

\* a publish failed with an error code and the call went on
C28_Witness == failed # <<>> /\ ~raised /\ calls # <<>>

\* the codes of the code-to-commodity table
TableCodes == ERT_TYPE_COMMODITY.electric \cup ERT_TYPE_COMMODITY.gas \cup ERT_TYPE_COMMODITY.water

\* the value denotes the code, as a number or as a numeric string
DenotesCode(value, c) == value \in {IntV(c), FloatV(100 * c), StrV(ToString(c))}

\* the one hint of the run has been sent
HintSent == plan.todo = <<>> /\ Len(plan.all) = 1

\* C29: a value that denotes a code of the table, number or numeric string,
\* sent under a generic type field yields the code's commodity, which is what
\* the same value yields under ert_type, and the device is recorded with it.
C29_TypeFieldReadsCodesLikeErtType ==
    HintSent /\ plan.all[1].field \in HintFieldsType
        => \A c \in TableCodes :
              DenotesCode(plan.all[1].value, c)
                  => /\ infer_commodity_from_type_field(plan.all[1].value) = CommodityOfCode(c)
                     /\ infer_commodity_from_type_field(plan.all[1].value)
                            = infer_commodity_from_ert_type(plan.all[1].value)
                     /\ Get(commodity_by_device, "d1", NoText) = CommodityOfCode(c)

\* a type code given as a number under a generic type field named the commodity
C29_Witness ==
    /\ HintSent
    /\ plan.all[1].field = "type"
    /\ plan.all[1].value = FloatV(1200)
    /\ Get(commodity_by_device, "d1", NoText) = "gas"

\* the ids of the detected devices, in order
DetectedIds == [i \in 1..Len(detected_devices) |-> detected_devices[i].id]

\* C30: after the startup every detected device has an id of its own, and
\* the hardware map has one entry per device, which gives the device's index.
C30_EveryDeviceHasItsOwnMapEntry ==
    /\ \A i, j \in 1..Len(detected_devices) : DetectedIds[i] = DetectedIds[j] => i = j
    /\ Cardinality(DOMAIN serial_to_index) = Len(detected_devices)
    /\ \A i \in 1..Len(detected_devices) :
          Get(serial_to_index, DetectedIds[i], -1) = detected_devices[i].index

\* two dongles with the same serial: the second one is renamed and both are
\* in the hardware map
C30_Witness ==
    /\ Len(detected_devices) = 2
    /\ detected_devices[2].usb_serial = detected_devices[1].usb_serial
    /\ serial_to_index = ("00000001" :> 0) @@ ("00000001-1" :> 1)

\* the thread waits at `with lock:' for a lock that a thread holds
Blocked(t) ==
    NextIs(t, "acquire") /\ \E u \in Producers : Head(threads[t].todo)[2] \in HeldBy(u)

\* C31: no thread holds two of the locks at once, no thread reaches an
\* acquisition while it holds a lock (so none re-acquires its own), and the
\* threads are never all waiting for locks.
C31_NoNestedLocksNoDeadlock ==
    /\ \A t \in Producers :
          /\ Cardinality(HeldBy(t)) <= 1
          /\ NextIs(t, "acquire") => HeldBy(t) = {}
    /\ \E t \in Producers : ~Blocked(t)

\* a thread waits for the discovery lock while the other one holds it
C31_Witness ==
    /\ Blocked(1)
    /\ Head(threads[1].todo)[2] = "discovery"
    /\ HeldBy(2) = {"discovery"}

\* the caches the claim names
PublisherCaches == {"discovery_sig", "last_sent_values"}
DeviceCaches == {"commodity_by_device", "utility_last_raw", "battery_state"}

\* the thread's last step was an access to this cache
Accessed(t, cache) ==
    IsRunning(t) /\ threads[t].last[1] \in {"read", "write"} /\ threads[t].last[2] = cache

\* C32: a thread that reads or writes the aggregation buckets holds the
\* buffer lock, one that reads or writes the signature cache or the
\* last-published values holds the discovery lock, and one that reads or
\* writes the commodity, the raw utility values or the battery state of a
\* device holds a lock.
C32_CachesAccessedUnderTheirLock ==
    \A t \in Producers :
        /\ Accessed(t, "buffer") => "buffer" \in HeldBy(t)
        /\ \A cache \in PublisherCaches : Accessed(t, cache) => "discovery" \in HeldBy(t)
        /\ \A cache \in DeviceCaches : Accessed(t, cache) => HeldBy(t) # {}

\* a signature was stored under the discovery lock
C32_Witness ==
    \E t \in Producers :
        threads[t].pc = "run" /\ threads[t].last = Wr("discovery_sig")
            /\ threads[t].held = {"discovery"}

\* the attribute keys the Details entry of the device holds
DetailKeysOf(cache, clean_id) == DOMAIN Get(cache, clean_id, NewDetailsEntry).attrs

\* C33 as stated: with a positive limit, the attribute map of a device never
\* holds more than DETAILS_MAX_KEYS keys
C33_Original ==
    MaxKeys > 0 =>
        \A clean_id \in DOMAIN details_cache :
            Cardinality(DetailKeysOf(details_cache, clean_id)) <= MaxKeys

\* the keys update_details has to choose from: those the entry held, those
\* of the reading and the three it always sets
MergedKeys == DetailKeysOf(details_cache, "d1") \cup DOMAIN arrived'.attrs \cup CoreKeys
\* the core keys and the include keys among them
CoreOfMerged == MergedKeys \cap (CoreKeys \cup config.DETAILS_INCLUDE_KEYS)
\* the limit, or the number of core keys present when that is larger
EffectiveLimit == MaxOf(MaxKeys, Cardinality(CoreOfMerged))

\* C33: after update_details with a positive limit, the attribute map holds
\* the core keys (last_seen, model, device) and the include keys that are
\* present, and as many of the other keys, taken in sorted order, as fit
\* under the limit; it exceeds DETAILS_MAX_KEYS only by core and include
\* keys.  Without a positive limit it holds every key.
C33_CoreKeysKeptThenSortedFill ==
    [][details_cache' # details_cache =>
          IF MaxKeys > 0
          THEN /\ DetailKeysOf(details_cache', "d1") \subseteq MergedKeys
               /\ CoreOfMerged \subseteq DetailKeysOf(details_cache', "d1")
               /\ Cardinality(DetailKeysOf(details_cache', "d1"))
                      = IF Cardinality(MergedKeys) <= MaxKeys THEN Cardinality(MergedKeys)
                        ELSE EffectiveLimit
               /\ \A k \in DetailKeysOf(details_cache', "d1") \ CoreOfMerged :
                     \A j \in MergedKeys \ DetailKeysOf(details_cache', "d1") :
                         KeyPosition(k) < KeyPosition(j)
          ELSE DetailKeysOf(details_cache', "d1") = MergedKeys]_vars

\* the limit of four keys left room for one other key: battery was kept and
\* a key of the reading that sorts after it was dropped
C33_Witness ==
    /\ MaxKeys = 4
    /\ arrived.field = "details"
    /\ "channel" \in DOMAIN arrived.attrs
    /\ DetailKeysOf(details_cache, "d1") = CoreKeys \cup {"battery"}

\* the offline marker has been handed to the client
OfflinePublished == stop_pc # "running"

\* C34: once stop() has published the offline marker, no step of a producer
\* or of the flush thread hands a message to the client.
C34_NothingPublishedAfterOffline ==
    [][OfflinePublished => pubs' = <<>>]_vars

\* the process has ended and the offline marker is what the broker retains
C34_Witness ==
    /\ stop_pc = "exited"
    /\ TOPIC_AVAILABILITY \in DOMAIN broker
    /\ broker[TOPIC_AVAILABILITY].text = "offline"
    /\ discovery_published # {}

----------------------------------------------------------------------------
(* Properties of the start of the radios *)

\* the role has a config in role_map
RoleUsable(token, devices, cfg) ==
    role_map(token, tokens_to_start(devices, cfg), cfg.RTL_AUTO_HOPPER_FREQS,
             cfg.RTL_AUTO_PRIORITY,
             split_secondary(MaxRadios(Len(devices), cfg), Len(devices),
                             choose_secondary_band_defaults(cfg.RTL_AUTO_BAND_PLAN),
                             cfg.RTL_AUTO_PRIORITY),
             choose_secondary_band_defaults(cfg.RTL_AUTO_BAND_PLAN)) # <<>>

EverySelectedRoleUsable ==
    \A i \in 1..Len(tokens_to_start(detected_devices, config)) :
        RoleUsable(tokens_to_start(detected_devices, config)[i], detected_devices, config)

\* C35: in auto multi-radio mode with rtl_auto_max_radios = k > 0, the number
\* of radio threads started is min(k, number of detected dongles) whenever
\* every selected role has a usable frequency plan.
C35_StartsMinOfCapAndDongles ==
    (/\ AutoMulti(detected_devices, config)
     /\ config.RTL_AUTO_MAX_RADIOS > 0
     /\ EverySelectedRoleUsable)
    => Len(radios) = Smaller(config.RTL_AUTO_MAX_RADIOS, Len(detected_devices))

\* four dongles and rtl_auto_max_radios = 4, every role of the plan usable:
\* three radios are started
C35_Witness ==
    /\ AutoMulti(detected_devices, config)
    /\ config.RTL_AUTO_MAX_RADIOS = 4
    /\ Len(detected_devices) = 4
    /\ EverySelectedRoleUsable
    /\ Len(radios) = 3

----------------------------------------------------------------------------
(* Properties of concurrent calls of send_sensor for one device *)

BothReturned == \A t \in Producers : threads[t].pc = "returned"
RaceTotalUid == UniqueIdV2(RaceId, threads[1].field)
RaceRetained == broker[ConfigTopic("sensor", RaceTotalUid)].cfg
\* the metadata and the value the stored commodity calls for
RaceMetaNow ==
    utility_meta_override(commodity_by_device, device_model_by_id, RaceId, threads[1].field)
RaceValueNow ==
    utility_normalize_value(commodity_by_device, device_model_by_id, RaceId,
                            threads[1].field, threads[1].value, DeviceModelOf(RaceId))

\* C36: when one thread processes a utility total while another processes a
\* commodity hint of the same device, then once both calls have returned the
\* retained discovery metadata and the state of the utility entity are those
\* of the stored commodity; a call that computed its metadata before the hint
\* was stored does not overwrite the refreshed metadata.
C36_RetainedMetadataFollowsStoredCommodity ==
    BothReturned =>
        /\ RaceId \in DOMAIN commodity_by_device
        /\ RaceRetained.unit_of_measurement = RaceMetaNow[1]
        /\ RaceRetained.device_class = RaceMetaNow[2]
        /\ PyEq(last_sent_values[RaceTotalUid], RaceValueNow)

\* both calls returned, the device's commodity is stored, and the retained
\* config carries the metadata the total's thread computed before it was
\* stored, not the metadata of the commodity
C36_Witness ==
    /\ BothReturned
    /\ RaceId \in DOMAIN commodity_by_device
    /\ threads[1].meta_override = NoMeta
    /\ RaceRetained.unit_of_measurement # RaceMetaNow[1]
    /\ ~PyEq(last_sent_values[RaceTotalUid], RaceValueNow)

----------------------------------------------------------------------------
(* Properties of the scan against the producers and the stop timer *)

\* no scan is active and neither the callback nor _stop_nuke_scan is under way
ScanQuiet ==
    /\ ~is_nuking
    /\ threads[CallbackThread].pc = "idle"
    /\ threads[TimerThread].pc = "idle"

ScanRaceUid == UniqueIdV2("d1", "temperature")

\* C37: whenever no nuke scan is active and an entity's signature is in the
\* signature cache, the broker holds a non-empty retained discovery config of
\* the entity, under any interleaving of the message callback, the stop timer
\* and the producers: the scanner deletes no config published after the
\* caches were cleared.
C37_SignedEntitiesStayRetained ==
    ScanQuiet =>
        \A uid \in DOMAIN discovery_sig : ConfigTopic("sensor", uid) \in DOMAIN broker

\* the scan is over, the entity was discovered again after the caches were
\* cleared, and the callback's late delete removed its config
C37_Witness ==
    /\ ScanQuiet
    /\ nuke_timers = <<>>
    /\ ScanRaceUid \in DOMAIN discovery_sig
    /\ ScanRaceUid \in discovery_published
    /\ ConfigTopic("sensor", ScanRaceUid) \notin DOMAIN broker
    /\ pubs = <<TextMsg(ConfigTopic("sensor", ScanRaceUid), "")>>

----------------------------------------------------------------------------
(* Properties of overlapping capture sessions *)

\* C38: a capture session accepts lines until its own deadline: while the
\* deadline of the open session lies ahead, the session is closed by no step
\* but a failed write or a new start_capture, also when it was started while
\* the stop timer of an earlier session was pending; so every line fed before
\* the deadline is written.
C38_SessionOpenUntilOwnDeadline ==
    [][(capture_fp /\ now < capture_active_until /\ ~capture_fp')
           => capture_last_error' \in {WriteError, OpenError}]_vars

\* no session is open and no error is recorded, while the stop timer of the
\* last session is pending and that session's deadline still lies ahead: the
\* timer of an earlier session closed it
C38_Witness ==
    /\ ~capture_fp
    /\ capture_last_error = NoText
    /\ capture_path # NoTime
    /\ capture_file # <<>>
    /\ \E due \in capture_timers : now < due - 1

----------------------------------------------------------------------------
(* Properties of overlapping detonations *)

\* scanning: is_nuking and the wildcard subscription
Scanning == is_nuking /\ nuke_subscribed

\* C39: each detonation gets its full scan window: scanning stays active
\* until the 5 seconds of every detonation have passed (its stop timer is due
\* NUKE_SCAN_SECONDS after it), also when the stop timer of an earlier
\* detonation is pending, and scanning is inactive once the last pending stop
\* timer has fired.
C39_EachDetonationScansItsWindow ==
    /\ \A i \in 1..Len(nuke_timers) : now < nuke_timers[i] => Scanning
    /\ nuke_timers = <<>> => ~is_nuking /\ ~nuke_subscribed

\* the last press detonated less than 5 seconds ago, its stop timer is
\* pending, and scanning is off: the timer of the detonation before it fired
C39_Witness ==
    /\ presses # <<>>
    /\ Last(presses).started
    /\ now < Last(presses).at + NUKE_SCAN_SECONDS
    /\ nuke_timers = <<Last(presses).at + NUKE_SCAN_SECONDS>>
    /\ ~is_nuking
    /\ ~nuke_subscribed

----------------------------------------------------------------------------
(* Properties of the raw-value cache and of the refresh *)

\* the caches and the broker of two handlers agree
SameCaches(A, B) ==
    /\ A.discovery_published = B.discovery_published
    /\ A.last_sent_values = B.last_sent_values
    /\ A.tracked_devices = B.tracked_devices
    /\ A.migration_cleared = B.migration_cleared
    /\ A.battery_state = B.battery_state
    /\ A.commodity_by_device = B.commodity_by_device
    /\ A.device_model_by_id = B.device_model_by_id
    /\ A.utility_last_raw = B.utility_last_raw
    /\ A.discovery_sig = B.discovery_sig
    /\ A.broker = B.broker

\* the handler after one more run of the refresh for a device
RefreshedAgain(H, d) ==
    refresh_utility_entities_for_device(H, d, DeviceNameOf(d), DeviceModelOf(d))

\* one more run of the refresh publishes nothing and changes no cache
RefreshIsNoOp(H, d) ==
    \A R \in {RefreshedAgain(H, d)} :
        /\ R.pubs = <<>>
        /\ R.failed = <<>>
        /\ SameCaches(R, H)

\* the raw-value cache after a call from outside with this reading
RawCacheAfter(raw, c) ==
    IF c.field \in UtilityFields /\ c.value.t # "none"
    THEN PutRaw(raw, c.clean_id, c.field, c.value) ELSE raw

\* C40: the raw-value cache holds the raw input value last supplied for
\* (device, field), never a normalized output: a call stores its own input
\* there and nothing else changes the cache.  The calls a refresh makes take
\* their value from the cache, are no commodity hints and so trigger no
\* further refresh, and each cached field is re-evaluated once.  After any
\* call, running the refresh for a device again publishes no message and
\* changes no cache.
C40_RawCacheMakesRefreshIdempotent ==
    /\ [](\A d \in DOMAIN device_model_by_id : RefreshIsNoOp(Handler, d))
    /\ [][calls' # <<>> =>
          /\ ~Last(calls').nested
          /\ utility_last_raw' = RawCacheAfter(utility_last_raw, Last(calls'))
          /\ \A i \in 1..(Len(calls') - 1) :
                /\ calls'[i].nested
                /\ calls'[i].clean_id = Last(calls').clean_id
                /\ calls'[i].field \in CachedFields(utility_last_raw', calls'[i].clean_id)
                /\ calls'[i].value =
                      CachedValue(utility_last_raw', calls'[i].clean_id, calls'[i].field)
                /\ CommodityUpdate(calls'[i].field, calls'[i].value) = NoText
                /\ Cardinality(NestedCallsFor(calls', calls'[i].clean_id,
                                              calls'[i].field)) = 1]_vars

\* a hint changed the commodity of a device with two cached totals: the
\* refresh published both converted, the cache still holds the raw inputs and
\* one more refresh does nothing
C40_Witness ==
    /\ Len(calls) = 3
    /\ calls[1].nested /\ calls[2].nested
    /\ calls[1].out_value # calls[1].value
    /\ ConfigCount(calls[1]) = 1
    /\ StateCount(calls[1]) = 1
    /\ CachedValue(utility_last_raw, calls[1].clean_id, calls[1].field) = calls[1].value
    /\ RefreshIsNoOp(Handler, calls[1].clean_id)

====
